---- MODULE Spec2Model ----
(***************************************************************************)
(* Model of the lecture-slide pipeline: the deck builder                   *)
(* (generate_slides.py), the speaker-notes generator                       *)
(* (generate_speaker_notes.py) and the video generator                     *)
(* (generate_video.py).  Texts are sequences of one-character strings, so  *)
(* that formatting, joining and stripping are computed, not assumed.       *)
(***************************************************************************)
EXTENDS Integers, Sequences, FiniteSets, TLC

VARIABLES
    \* ---- deck builder (create_slides_from_json) ----
    sl_pc,        \* position in create_slides_from_json
    sl_readable,  \* whether the JSON file can be opened and parsed
    sl_json,      \* content: the object parsed from the JSON file
    sl_template,  \* the template document: its layouts' placeholder indices
    sl_slides,    \* prs.slides, in order
    sl_idx,       \* agenda_idx of the content loop
    sl_perItem,   \* number of content slides added for each agenda position
    sl_out        \* the file at output_path: whether it was written, and its slides

slidesVars == <<sl_pc, sl_readable, sl_json, sl_template, sl_slides, sl_idx, sl_perItem, sl_out>>

VARIABLES
    \* ---- speaker-notes generator (SpeakerNotesGenerator) ----
    nt_deck,      \* the input deck: the notes of each slide, in slide order
    nt_name,      \* the stem of the input deck's file name
    nt_pages,     \* number of pages of the PDF rendering of the deck
    nt_failing,   \* the pages whose vision-model call raises
    nt_convOk,    \* whether the document converter exits with 0
    nt_pdfOk,     \* whether the PDF rendering can be opened
    nt_deckOk,    \* whether the deck can be opened and the output deck saved
    nt_pc,        \* per entry point: position in the run
    nt_tmp,       \* per entry point: the files of the run's temporary directory
    nt_i,         \* per entry point: index i of the generation loop
    nt_notes,     \* per entry point: notes_list
    nt_vision,    \* per entry point: the pages sent to the vision model, in call order
    nt_progress,  \* per entry point: the (completed, total) pairs given to the callback
    nt_out,       \* per entry point: the output deck, once written
    nt_ret        \* per entry point: the returned success flag

notesInputs == <<nt_deck, nt_name, nt_pages, nt_failing, nt_convOk, nt_pdfOk, nt_deckOk>>
notesVars == <<notesInputs, nt_pc, nt_tmp, nt_i, nt_notes, nt_vision, nt_progress, nt_out, nt_ret>>

VARIABLES
    \* ---- image extraction (VideoGenerator.extract_images_from_zip) ----
    zp_pc,        \* position in extract_images_from_zip
    zp_archive,   \* zf.namelist(): the entry names, in archive order
    zp_k,         \* number of entries scanned so far
    zp_files,     \* jpeg_files: (num, name) pairs
    zp_images     \* images: the loaded images, each identified by its entry name

zipVars == <<zp_pc, zp_archive, zp_k, zp_files, zp_images>>

VARIABLES
    \* ---- video generator (VideoGenerator.generate_video) ----
    vd_pc,        \* position in generate_video
    vd_deck,      \* the deck at pptx_path: the notes field of each slide
    vd_archive,   \* the archive at zip_path: its entry names
    vd_deckOk,    \* whether the deck can be opened
    vd_zipOk,     \* whether the archive can be opened and its images loaded
    vd_notes,     \* speaker_notes
    vd_images,    \* images
    vd_i,         \* index i of the loop over the slides
    vd_audio,     \* whether the slide being processed has an audio file
    vd_duration,  \* duration of the clip being made
    vd_tts,       \* the slides for which a TTS call was issued, in call order
    vd_sub,       \* the subprocess invocations, in call order
    vd_clips,     \* video_paths: the clips created so far
    vd_progress,  \* the (completed, total) pairs given to the callback
    vd_video,     \* the file at output_path: whether it was written, and its clips
    vd_ret        \* the returned (flag, message kind)

videoInputs == <<vd_deck, vd_archive, vd_deckOk, vd_zipOk>>
videoVars == <<videoInputs, vd_pc, vd_notes, vd_images, vd_i, vd_audio, vd_duration,
               vd_tts, vd_sub, vd_clips, vd_progress, vd_video, vd_ret>>

VARIABLES
    \* ---- the text stages and the constructors (generate_outline.py,
    \*      outline_to_json.py, the two __init__ methods) ----
    tx_fn,        \* the callable that is run
    tx_arg,       \* the api_key argument
    tx_env,       \* the value of the environment variable ANTHROPIC_API_KEY
    tx_pc,        \* position in the callable
    tx_key,       \* api_key after the environment fallback
    tx_client,    \* whether the API client object was constructed
    tx_calls,     \* the external calls issued, in call order
    tx_text,      \* outline_text / response_text
    tx_ret        \* how the callable ended: returned value or raised exception

textInputs == <<tx_fn, tx_arg, tx_env>>
textVars == <<textInputs, tx_pc, tx_key, tx_client, tx_calls, tx_text, tx_ret>>

VARIABLES
    \* ---- the slide-generation stage of the UI (app.py, tab 2) ----
    ui_pc,        \* per session: position in the button handler
    ui_attempts,  \* per session: number of clicks on the generation button so far
    ui_local,     \* per session: json_data, the handler's local variable
    ui_content,   \* per session: content, as loaded by create_slides_from_json
    ui_session,   \* per session: st.session_state (json_data, pptx_data, pptx_filename)
    ui_last,      \* per session: how the last attempt ended
    ui_fs         \* the files at /tmp/lecture.json and /tmp/generated_slides.pptx

stageVars == <<ui_pc, ui_attempts, ui_local, ui_content, ui_session, ui_last, ui_fs>>

vars == <<slidesVars, notesVars, zipVars, videoVars, textVars, stageVars>>

----------------------------------------------------------------------------
(* Bounds of the model *)

MaxAgenda == 2
MaxBodies == 2
MaxSlides == 2
MaxPages == 3
MaxEntries == 3
MaxAttempts == 2

----------------------------------------------------------------------------
(* Texts *)

NL == "\n"
Whitespace == {" ", NL}

DigitChars == <<"0", "1", "2", "3", "4", "5", "6", "7", "8", "9">>

RECURSIVE IntToStr(_)
\* Python's str(n) for n >= 0
IntToStr(n) ==
    IF n < 10 THEN <<DigitChars[n + 1]>>
    ELSE IntToStr(n \div 10) \o <<DigitChars[(n % 10) + 1]>>

RECURSIVE Join(_, _)
\* sep.join(parts)
Join(sep, parts) ==
    IF Len(parts) = 0 THEN <<>>
    ELSE IF Len(parts) = 1 THEN parts[1]
    ELSE parts[1] \o sep \o Join(sep, Tail(parts))

\* numbering that starts at 0: f"{i}. {item}"
NumberedFromZero(i, item) == IntToStr(i) \o <<".", " ">> \o item

\* f"{i+1}. {item}" for the 0-based index i
Numbered(i, item) == IntToStr(i + 1) \o <<".", " ">> \o item

RECURSIVE LStrip(_)
LStrip(txt) ==
    IF Len(txt) > 0 /\ txt[1] \in Whitespace THEN LStrip(Tail(txt)) ELSE txt

RECURSIVE RStrip(_)
RStrip(txt) ==
    IF Len(txt) > 0 /\ txt[Len(txt)] \in Whitespace
    THEN RStrip(SubSeq(txt, 1, Len(txt) - 1))
    ELSE txt

\* str.strip()
Strip(txt) == RStrip(LStrip(txt))

\* text.split(sep) for a one-character separator
RECURSIVE Split(_, _)
Split(txt, sep) ==
    IF \A i \in 1..Len(txt) : txt[i] # sep THEN <<txt>>
    ELSE LET k == CHOOSE i \in 1..Len(txt) :
                      txt[i] = sep /\ \A j \in 1..(i - 1) : txt[j] # sep
         IN <<SubSeq(txt, 1, k - 1)>> \o Split(SubSeq(txt, k + 1, Len(txt)), sep)

\* str.endswith / str.startswith
EndsWith(txt, suffix) ==
    /\ Len(suffix) <= Len(txt)
    /\ SubSeq(txt, Len(txt) - Len(suffix) + 1, Len(txt)) = suffix

StartsWith(txt, prefix) ==
    /\ Len(prefix) <= Len(txt)
    /\ SubSeq(txt, 1, Len(prefix)) = prefix

SeqsUpTo(S, n) == UNION {[1..k -> S] : k \in 0..n}

----------------------------------------------------------------------------
(* Deck builder: generate_slides.py *)

IdxHeader == 13
IdxBody == 14

\* positions of the layouts in prs.slide_masters[0].slide_layouts
MainLayout == 0
StartLayout == 1
EndLayout == 2

\* agenda item texts: "A", "B", and "A " (differs from "A" by whitespace only)
Items == {<<"A">>, <<"B">>, <<"A", " ">>}
\* the agenda may also hold a text with a line break in it: "C\nD"
AgendaItems == Items \cup {<<"C", NL, "D">>}
Bodies == {<<"x">>, <<"y">>}
Titles == {<<"T">>}
\* the literal header of the agenda slide, written in Latin letters
AgendaTitle == <<"A", "g", "e", "n", "d", "a">>

\* lists of slide bodies (no body twice in a row, to keep the input set small)
BodyLists ==
    {b \in SeqsUpTo(Bodies, MaxBodies) : \A i \in 1..(Len(b) - 1) : b[i] # b[i + 1]}

\* main: a mapping from some item texts to lists of slide bodies
Mains == UNION {[D -> BodyLists] : D \in SUBSET Items}

\* the structure objects {title, agenda, main}
ValidStructures ==
    {[k \in {"title", "agenda", "main"} |->
        CASE k = "title" -> t
          [] k = "agenda" -> a
          [] k = "main" -> m] :
        t \in Titles, a \in SeqsUpTo(AgendaItems, MaxAgenda), m \in Mains}

\* objects that lack one of the three keys
PartialStructures ==
    {[k \in D |->
        CASE k = "title" -> <<"T">>
          [] k = "agenda" -> <<<<"A">>>>
          [] k = "main" -> [i \in {<<"A">>} |-> <<<<"x">>>>]] :
        D \in {{"agenda", "main"}, {"title", "main"}, {"title", "agenda"}}}

\* nothing parsed: the file is missing or is not JSON
NoObject == [k \in {} |-> <<>>]

\* templates: the placeholder indices of each layout, in layout order
Templates ==
    { <<{IdxHeader, IdxBody}, {IdxHeader}, {}>>,
      <<{IdxBody}, {}, {}>>,
      <<{IdxHeader, IdxBody}, {IdxHeader}>> }

\* (mutation of NewSlide: every slide is made from the first layout)
NewSlideFirstLayout(layoutIdx) ==
    [layout |-> 0,
     text |-> [p \in sl_template[1] |-> <<>>]]

\* prs.slides.add_slide(layout): a slide with the placeholders of the layout, empty
NewSlide(layoutIdx) ==
    [layout |-> layoutIdx,
     text |-> [p \in sl_template[layoutIdx + 1] |-> <<>>]]

SetText(slide, idx, txt) ==
    IF idx \in DOMAIN slide.text
    THEN [slide EXCEPT !.text[idx] = txt]
    ELSE slide

SlidesIdle ==
    /\ sl_pc = "off"
    /\ sl_readable = FALSE
    /\ sl_json = NoObject
    /\ sl_template = <<>>
    /\ sl_slides = <<>>
    /\ sl_idx = 0
    /\ sl_perItem = <<>>
    /\ sl_out = [written |-> FALSE, slides |-> <<>>]

SlidesStart ==
    /\ sl_pc = "start"
    /\ sl_readable \in BOOLEAN
    /\ sl_json \in (IF sl_readable THEN ValidStructures \cup PartialStructures
                                   ELSE {NoObject})
    /\ sl_template \in Templates
    /\ sl_slides = <<>>
    /\ sl_idx = 0
    /\ sl_perItem = <<>>
    /\ sl_out = [written |-> FALSE, slides |-> <<>>]

\* (mutation of SlRaise: the output file has been opened for writing before the
\* exception)
SlRaiseTruncating ==
    /\ sl_pc' = "raised"
    /\ sl_out' = [written |-> TRUE, slides |-> <<>>]
    /\ UNCHANGED <<sl_readable, sl_json, sl_template, sl_slides, sl_idx, sl_perItem>>

SlRaise ==
    /\ sl_pc' = "raised"
    /\ UNCHANGED <<sl_readable, sl_json, sl_template, sl_slides, sl_idx, sl_perItem, sl_out>>

\* json.load, Presentation(template_path) and the three layout look-ups
LoadInputs ==
    /\ sl_pc = "start"
    /\ IF ~sl_readable \/ Len(sl_template) < 3
       THEN SlRaise
       ELSE /\ sl_pc' = "title"
            /\ UNCHANGED <<sl_readable, sl_json, sl_template, sl_slides, sl_idx, sl_perItem, sl_out>>

\* slide 1: add_slide(start_template), placeholder 13 receives content['title']
AddTitleSlide ==
    /\ sl_pc = "title"
    /\ LET s == NewSlide(StartLayout) IN
       IF IdxHeader \in DOMAIN s.text /\ "title" \notin DOMAIN sl_json
       THEN /\ sl_slides' = Append(sl_slides, s)
            /\ sl_pc' = "raised"
            /\ UNCHANGED <<sl_readable, sl_json, sl_template, sl_idx, sl_perItem, sl_out>>
       ELSE /\ sl_slides' = Append(sl_slides,
                    IF IdxHeader \in DOMAIN s.text
                    THEN SetText(s, IdxHeader, sl_json["title"])
                    ELSE s)
            /\ sl_pc' = "agenda"
            /\ UNCHANGED <<sl_readable, sl_json, sl_template, sl_idx, sl_perItem, sl_out>>

\* "\n".join(f"{i+1}. {item}" for i, item in enumerate(agenda))
AgendaText(agenda) ==
    Join(<<NL>>, [i \in 1..Len(agenda) |-> Numbered(i - 1, agenda[i])])

\* slide 2: add_slide(main_template), the literal header, body the numbered agenda
AddAgendaSlide ==
    /\ sl_pc = "agenda"
    /\ IF "agenda" \notin DOMAIN sl_json
       THEN /\ sl_slides' = Append(sl_slides, NewSlide(MainLayout))
            /\ sl_pc' = "raised"
            /\ UNCHANGED <<sl_readable, sl_json, sl_template, sl_idx, sl_perItem, sl_out>>
       ELSE /\ sl_slides' = Append(sl_slides,
                    SetText(SetText(NewSlide(MainLayout), IdxHeader, AgendaTitle),
                            IdxBody, AgendaText(sl_json["agenda"])))
            /\ sl_pc' = "content"
            /\ sl_idx' = 0
            /\ UNCHANGED <<sl_readable, sl_json, sl_template, sl_perItem, sl_out>>

\* (mutation of ItemSlides: only the first body of the entry gets a slide)
ItemSlidesFirstOnly(agendaIdx, agendaTitle, bodies) ==
    [j \in 1..(IF Len(bodies) > 1 THEN 1 ELSE Len(bodies)) |->
        SetText(SetText(NewSlide(MainLayout), IdxHeader, Numbered(agendaIdx, agendaTitle)),
                IdxBody, bodies[j])]

\* (mutation of ItemSlides: the bodies are taken from the end of the list)
ItemSlidesReversed(agendaIdx, agendaTitle, bodies) ==
    [j \in 1..Len(bodies) |->
        SetText(SetText(NewSlide(MainLayout), IdxHeader, Numbered(agendaIdx, agendaTitle)),
                IdxBody, bodies[Len(bodies) + 1 - j])]

\* the content slides of one agenda entry: one per body of main[agenda_title]
ItemSlides(agendaIdx, agendaTitle, bodies) ==
    [j \in 1..Len(bodies) |->
        SetText(SetText(NewSlide(MainLayout), IdxHeader, Numbered(agendaIdx, agendaTitle)),
                IdxBody, bodies[j])]

\* agenda_title in content['main']
IsKeyOfMain(agendaTitle, main) == agendaTitle \in DOMAIN main

\* (mutation of AddContentSlides: main[agenda_title] is read without the membership
\* test, so an entry that is no key of main raises KeyError)
AddContentSlidesNoTest ==
    /\ sl_pc = "content"
    /\ sl_idx < Len(sl_json["agenda"])
    /\ IF "main" \notin DOMAIN sl_json
          \/ ~IsKeyOfMain(sl_json["agenda"][sl_idx + 1], sl_json["main"])
       THEN SlRaise
       ELSE LET agendaTitle == sl_json["agenda"][sl_idx + 1]
                new == ItemSlides(sl_idx, agendaTitle, sl_json["main"][agendaTitle])
            IN /\ sl_slides' = sl_slides \o new
               /\ sl_perItem' = Append(sl_perItem, Len(new))
               /\ sl_idx' = sl_idx + 1
               /\ UNCHANGED <<sl_pc, sl_readable, sl_json, sl_template, sl_out>>

\* one turn of the loop over enumerate(content['agenda'])
AddContentSlides ==
    /\ sl_pc = "content"
    /\ sl_idx < Len(sl_json["agenda"])
    /\ IF "main" \notin DOMAIN sl_json
       THEN SlRaise
       ELSE LET agendaTitle == sl_json["agenda"][sl_idx + 1]
                new == IF IsKeyOfMain(agendaTitle, sl_json["main"])
                       THEN ItemSlides(sl_idx, agendaTitle, sl_json["main"][agendaTitle])
                       ELSE <<>>
            IN /\ sl_slides' = sl_slides \o new
               /\ sl_perItem' = Append(sl_perItem, Len(new))
               /\ sl_idx' = sl_idx + 1
               /\ UNCHANGED <<sl_pc, sl_readable, sl_json, sl_template, sl_out>>

\* last slide: add_slide(end_template), no substitution
AddClosingSlide ==
    /\ sl_pc = "content"
    /\ sl_idx = Len(sl_json["agenda"])
    /\ sl_slides' = Append(sl_slides, NewSlide(EndLayout))
    /\ sl_pc' = "save"
    /\ UNCHANGED <<sl_readable, sl_json, sl_template, sl_idx, sl_perItem, sl_out>>

\* prs.save(output_path)
SaveDeck ==
    /\ sl_pc = "save"
    /\ sl_out' = [written |-> TRUE, slides |-> sl_slides]
    /\ sl_pc' = "done"
    /\ UNCHANGED <<sl_readable, sl_json, sl_template, sl_slides, sl_idx, sl_perItem>>


----------------------------------------------------------------------------
(* Speaker-notes generator: generate_speaker_notes.py *)

Entries == {"process_pptx_with_pdf", "process_pptx"}

\* total given to the progress callback by each entry point
ProgressTotal(e) == IF e = "process_pptx" THEN 4 ELSE 3

\* notes text a slide of the input deck may already carry
OldNotes == {<<>>, <<"a">>, <<" ">>}

\* the text the vision model returns for page n, when the call succeeds
Reply(n) == <<" ", "r">> \o IntToStr(n) \o <<NL>>

\* the placeholder f"<slide> {slide_number} <could not be generated>", its Japanese
\* words written in Latin letters
Placeholder(n) ==
    <<"s", "l", "i", "d", "e", " ">> \o IntToStr(n)
        \o <<" ", "n", "o", "t", " ", "g", "e", "n", "e", "r", "a", "t", "e", "d", ".">>

\* (mutation of GenerateScript: a failed call yields the empty string)
GenerateScriptEmpty(n) ==
    IF n \in nt_failing THEN <<>> ELSE Strip(Reply(n))

\* generate_script_from_image: the stripped reply, or the placeholder when the
\* call raises
GenerateScript(n) ==
    IF n \in nt_failing THEN Placeholder(n) ELSE Strip(Reply(n))

\* (mutation of AddNotes: the new text replaces the existing notes)
AddNotesOverwrite(deck, notesList) ==
    [i \in 1..Len(deck) |-> IF i <= Len(notesList) THEN notesList[i] ELSE deck[i]]

\* (mutation of AddNotes: the list is applied from its end)
AddNotesShifted(deck, notesList) ==
    [i \in 1..Len(deck) |->
        IF i <= Len(notesList)
        THEN IF Strip(deck[i]) # <<>>
             THEN deck[i] \o <<NL, NL>> \o notesList[Len(notesList) + 1 - i]
             ELSE notesList[Len(notesList) + 1 - i]
        ELSE deck[i]]

\* add_notes_to_pptx: the notes of each slide of the deck after the loop
AddNotes(deck, notesList) ==
    [i \in 1..Len(deck) |->
        IF i <= Len(notesList)
        THEN IF Strip(deck[i]) # <<>>
             THEN deck[i] \o <<NL, NL>> \o notesList[i]
             ELSE notesList[i]
        ELSE deck[i]]

\* libreoffice --convert-to pdf --outdir <dir> <file>: the PDF is named after the
\* input file
ConvertedName(stem) == stem \o <<".", "p", "d", "f">>

\* os.path.join(temp_dir, "slides.pdf")
PdfPath == <<"s", "l", "i", "d", "e", "s", ".", "p", "d", "f">>

FileStems == {<<"s", "l", "i", "d", "e", "s">>, <<"d", "e", "c", "k">>}

NotesIdle ==
    /\ nt_deck = <<>>
    /\ nt_name = <<>>
    /\ nt_pages = 0
    /\ nt_failing = {}
    /\ nt_convOk = FALSE
    /\ nt_pdfOk = FALSE
    /\ nt_deckOk = FALSE
    /\ nt_pc = [e \in Entries |-> "off"]
    /\ nt_tmp = [e \in Entries |-> {}]
    /\ nt_i = [e \in Entries |-> 0]
    /\ nt_notes = [e \in Entries |-> <<>>]
    /\ nt_vision = [e \in Entries |-> <<>>]
    /\ nt_progress = [e \in Entries |-> <<>>]
    /\ nt_out = [e \in Entries |-> [written |-> FALSE, slides |-> <<>>]]
    /\ nt_ret = [e \in Entries |-> "none"]

\* both entry points are given the same deck, the same pages and the same replies
NotesStart ==
    /\ nt_deck \in SeqsUpTo(OldNotes, MaxSlides)
    /\ nt_name \in FileStems
    /\ nt_pages \in 0..MaxPages
    /\ nt_failing \in SUBSET (1..nt_pages)
    /\ nt_convOk \in BOOLEAN
    /\ nt_pdfOk \in BOOLEAN
    /\ nt_deckOk \in BOOLEAN
    /\ nt_pc = [e \in Entries |-> "start"]
    /\ nt_tmp = [e \in Entries |-> {}]
    /\ nt_i = [e \in Entries |-> 0]
    /\ nt_notes = [e \in Entries |-> <<>>]
    /\ nt_vision = [e \in Entries |-> <<>>]
    /\ nt_progress = [e \in Entries |-> <<>>]
    /\ nt_out = [e \in Entries |-> [written |-> FALSE, slides |-> <<>>]]
    /\ nt_ret = [e \in Entries |-> "none"]

\* the except clauses: return False, error_msg, notes_list; the temporary directory
\* is removed on the way out
NtFail(e, progress) ==
    /\ nt_pc' = [nt_pc EXCEPT ![e] = "done"]
    /\ nt_ret' = [nt_ret EXCEPT ![e] = "failure"]
    /\ nt_progress' = [nt_progress EXCEPT ![e] = progress]
    /\ nt_tmp' = [nt_tmp EXCEPT ![e] = {}]
    /\ UNCHANGED <<notesInputs, nt_i, nt_notes, nt_vision, nt_out>>

\* (mutation of ConvertToPdf: the exit status of the converter is not checked)
ConvertToPdfUnchecked(e) ==
    /\ e = "process_pptx"
    /\ nt_pc[e] = "start"
    /\ nt_tmp' = [nt_tmp EXCEPT ![e] = {PdfPath}]
    /\ nt_progress' = [nt_progress EXCEPT ![e] = Append(@, <<0, ProgressTotal(e)>>)]
    /\ nt_pc' = [nt_pc EXCEPT ![e] = "rasterize"]
    /\ UNCHANGED <<notesInputs, nt_i, nt_notes, nt_vision, nt_out, nt_ret>>

\* process_pptx step 1: pptx_to_pdf into the temporary directory
ConvertToPdf(e) ==
    /\ e = "process_pptx"
    /\ nt_pc[e] = "start"
    /\ LET progress == Append(nt_progress[e], <<0, ProgressTotal(e)>>) IN
       IF ~nt_convOk
       THEN NtFail(e, progress)
       ELSE /\ nt_tmp' = [nt_tmp EXCEPT ![e] = {ConvertedName(nt_name)}]
            /\ nt_progress' = [nt_progress EXCEPT ![e] = progress]
            /\ nt_pc' = [nt_pc EXCEPT ![e] = "rasterize"]
            /\ UNCHANGED <<notesInputs, nt_i, nt_notes, nt_vision, nt_out, nt_ret>>

\* whether pdf_to_images can open its argument
PdfOpens(e) ==
    IF e = "process_pptx" THEN PdfPath \in nt_tmp[e] /\ nt_pdfOk ELSE nt_pdfOk

\* pdf_to_images, then the callback that announces the generation phase
PdfToImages(e) ==
    /\ \/ e = "process_pptx" /\ nt_pc[e] = "rasterize"
       \/ e = "process_pptx_with_pdf" /\ nt_pc[e] = "start"
    /\ LET k == ProgressTotal(e) - 3
           progress == Append(nt_progress[e], <<k, ProgressTotal(e)>>) IN
       IF ~PdfOpens(e)
       THEN NtFail(e, progress)
       ELSE /\ nt_progress' = [nt_progress EXCEPT
                                  ![e] = Append(progress, <<k + 1, ProgressTotal(e)>>)]
            /\ nt_pc' = [nt_pc EXCEPT ![e] = "generate"]
            /\ nt_i' = [nt_i EXCEPT ![e] = 0]
            /\ UNCHANGED <<notesInputs, nt_tmp, nt_notes, nt_vision, nt_out, nt_ret>>

\* (mutation of GenerateOne: the exception of a failed vision call is not caught
\* and ends the run)
GenerateOneNoCatch(e) ==
    /\ nt_pc[e] = "generate"
    /\ nt_i[e] < nt_pages
    /\ IF (nt_i[e] + 1) \in nt_failing
       THEN /\ nt_vision' = [nt_vision EXCEPT ![e] = Append(@, nt_i[e] + 1)]
            /\ nt_pc' = [nt_pc EXCEPT ![e] = "done"]
            /\ nt_ret' = [nt_ret EXCEPT ![e] = "failure"]
            /\ nt_tmp' = [nt_tmp EXCEPT ![e] = {}]
            /\ UNCHANGED <<notesInputs, nt_i, nt_notes, nt_progress, nt_out>>
       ELSE /\ nt_vision' = [nt_vision EXCEPT ![e] = Append(@, nt_i[e] + 1)]
            /\ nt_notes' = [nt_notes EXCEPT ![e] = Append(@, GenerateScript(nt_i[e] + 1))]
            /\ nt_i' = [nt_i EXCEPT ![e] = @ + 1]
            /\ UNCHANGED <<notesInputs, nt_pc, nt_tmp, nt_progress, nt_out, nt_ret>>

\* (mutation of GenerateOne: a vision call that raises is issued a second time)
GenerateOneRetry(e) ==
    /\ nt_pc[e] = "generate"
    /\ nt_i[e] < nt_pages
    /\ nt_vision' = [nt_vision EXCEPT
                        ![e] = IF (nt_i[e] + 1) \in nt_failing
                               THEN @ \o <<nt_i[e] + 1, nt_i[e] + 1>>
                               ELSE Append(@, nt_i[e] + 1)]
    /\ nt_notes' = [nt_notes EXCEPT ![e] = Append(@, GenerateScript(nt_i[e] + 1))]
    /\ nt_i' = [nt_i EXCEPT ![e] = @ + 1]
    /\ UNCHANGED <<notesInputs, nt_pc, nt_tmp, nt_progress, nt_out, nt_ret>>

\* one turn of the loop over enumerate(images): one vision call, one entry appended
GenerateOne(e) ==
    /\ nt_pc[e] = "generate"
    /\ nt_i[e] < nt_pages
    /\ nt_vision' = [nt_vision EXCEPT ![e] = Append(@, nt_i[e] + 1)]
    /\ nt_notes' = [nt_notes EXCEPT ![e] = Append(@, GenerateScript(nt_i[e] + 1))]
    /\ nt_i' = [nt_i EXCEPT ![e] = @ + 1]
    /\ UNCHANGED <<notesInputs, nt_pc, nt_tmp, nt_progress, nt_out, nt_ret>>

\* (mutation of WriteNotes: completion is reported before the deck is written)
WriteNotesReportFirst(e) ==
    /\ nt_pc[e] = "generate"
    /\ nt_i[e] = nt_pages
    /\ LET k == ProgressTotal(e) - 1
           progress == Append(Append(nt_progress[e], <<k, ProgressTotal(e)>>),
                              <<k + 1, ProgressTotal(e)>>) IN
       IF ~nt_deckOk
       THEN NtFail(e, progress)
       ELSE /\ nt_out' = [nt_out EXCEPT
                             ![e] = [written |-> TRUE,
                                     slides |-> AddNotes(nt_deck, nt_notes[e])]]
            /\ nt_progress' = [nt_progress EXCEPT ![e] = progress]
            /\ nt_pc' = [nt_pc EXCEPT ![e] = "done"]
            /\ nt_ret' = [nt_ret EXCEPT ![e] = "success"]
            /\ nt_tmp' = [nt_tmp EXCEPT ![e] = {}]
            /\ UNCHANGED <<notesInputs, nt_i, nt_notes, nt_vision>>

\* add_notes_to_pptx, the final callback and return True
WriteNotes(e) ==
    /\ nt_pc[e] = "generate"
    /\ nt_i[e] = nt_pages
    /\ LET k == ProgressTotal(e) - 1
           progress == Append(nt_progress[e], <<k, ProgressTotal(e)>>) IN
       IF ~nt_deckOk
       THEN NtFail(e, progress)
       ELSE /\ nt_out' = [nt_out EXCEPT
                             ![e] = [written |-> TRUE,
                                     slides |-> AddNotes(nt_deck, nt_notes[e])]]
            /\ nt_progress' = [nt_progress EXCEPT
                                  ![e] = Append(progress, <<k + 1, ProgressTotal(e)>>)]
            /\ nt_pc' = [nt_pc EXCEPT ![e] = "done"]
            /\ nt_ret' = [nt_ret EXCEPT ![e] = "success"]
            /\ nt_tmp' = [nt_tmp EXCEPT ![e] = {}]
            /\ UNCHANGED <<notesInputs, nt_i, nt_notes, nt_vision>>

\* the second entry point is called after the first one has returned, on the same
\* inputs
MayRun(e) == e = "process_pptx" => nt_pc["process_pptx_with_pdf"] = "done"

----------------------------------------------------------------------------
(* Image extraction: VideoGenerator.extract_images_from_zip *)

Digits == {"0", "1", "2", "3", "4", "5", "6", "7", "8", "9"}

DigitValue(c) == CHOOSE v \in 0..9 : DigitChars[v + 1] = c

\* str.lower() on the letters the model uses
LowerChar(c) ==
    CASE c = "J" -> "j"
      [] c = "P" -> "p"
      [] c = "E" -> "e"
      [] c = "G" -> "g"
      [] c = "S" -> "s"
      [] OTHER -> c

Lower(txt) == [i \in 1..Len(txt) |-> LowerChar(txt[i])]

\* sub in txt
Contains(txt, sub) ==
    \E i \in 1..(Len(txt) - Len(sub) + 1) : SubSeq(txt, i, i + Len(sub) - 1) = sub

\* os.path.basename(name): what follows the last "/"
Basename(name) ==
    IF \A i \in 1..Len(name) : name[i] # "/" THEN name
    ELSE LET k == CHOOSE i \in 1..Len(name) :
                      name[i] = "/" /\ \A j \in (i + 1)..Len(name) : name[j] # "/"
         IN SubSeq(name, k + 1, Len(name))

HasDigit(txt) == \E i \in 1..Len(txt) : txt[i] \in Digits

\* re.search(r'(\d+)', txt).group(1): the first maximal run of digits
FirstDigitRun(txt) ==
    LET a == CHOOSE i \in 1..Len(txt) :
                 txt[i] \in Digits /\ \A j \in 1..(i - 1) : txt[j] \notin Digits
        b == CHOOSE i \in a..Len(txt) :
                 /\ \A j \in a..i : txt[j] \in Digits
                 /\ (i = Len(txt) \/ txt[i + 1] \notin Digits)
    IN SubSeq(txt, a, b)

RECURSIVE ParseInt(_)
\* int(digits)
ParseInt(digits) ==
    IF Len(digits) = 0 THEN 0
    ELSE 10 * ParseInt(SubSeq(digits, 1, Len(digits) - 1)) + DigitValue(digits[Len(digits)])

ExtJpeg == <<".", "j", "p", "e", "g">>
ExtJpg == <<".", "j", "p", "g">>
MacMetadata == <<"_", "_", "M", "A", "C", "O", "S", "X">>

HasSuffix(txt, suffix) ==
    /\ Len(suffix) <= Len(txt)
    /\ SubSeq(txt, Len(txt) - Len(suffix) + 1, Len(txt)) = suffix

\* (mutation of IsKept: hidden files are not skipped)
IsKeptHidden(name) ==
    /\ ~HasSuffix(name, <<"/">>)
    /\ ~Contains(name, MacMetadata)
    /\ (HasSuffix(Lower(name), ExtJpeg) \/ HasSuffix(Lower(name), ExtJpg))
    /\ HasDigit(Basename(name))

\* the tests of the loop over zf.namelist(): whether the entry is put into jpeg_files
IsKept(name) ==
    /\ ~HasSuffix(name, <<"/">>)
    /\ ~Contains(name, MacMetadata)
    /\ ~(Len(Basename(name)) > 0 /\ Basename(name)[1] = ".")
    /\ (HasSuffix(Lower(name), ExtJpeg) \/ HasSuffix(Lower(name), ExtJpg))
    /\ HasDigit(Basename(name))

\* num = int(match.group(1))
SlideNumber(name) == ParseInt(FirstDigitRun(Basename(name)))

\* one turn of the loop over zf.namelist()
ScanEntry(files, name) ==
    IF IsKept(name)
    THEN Append(files, [num |-> SlideNumber(name), name |-> name])
    ELSE files

RECURSIVE ScanAll(_, _)
ScanAll(files, names) ==
    IF Len(names) = 0 THEN files
    ELSE ScanAll(ScanEntry(files, names[1]), Tail(names))

\* insertion of one pair behind all pairs with a key not above its own (stable)
InsertByNum(sorted, f) ==
    LET k == Cardinality({i \in 1..Len(sorted) : sorted[i].num <= f.num})
    IN SubSeq(sorted, 1, k) \o <<f>> \o SubSeq(sorted, k + 1, Len(sorted))

RECURSIVE SortFrom(_, _)
SortFrom(sorted, rest) ==
    IF Len(rest) = 0 THEN sorted
    ELSE SortFrom(InsertByNum(sorted, rest[1]), Tail(rest))

\* (mutation of SortByNum: the pairs stay in archive order)
ArchiveOrder(files) == files

\* jpeg_files.sort(key=lambda x: x[0])
SortByNum(files) == SortFrom(<<>>, files)

\* the images loaded in the order of the sorted pairs
LoadImages(files) == [i \in 1..Len(files) |-> files[i].name]

\* extract_images_from_zip as a whole
ExtractImagesFromZip(names) == LoadImages(SortByNum(ScanAll(<<>>, names)))

\* entry names: the slide prefix is written "S"
EntryNames ==
    { <<"S", "2", ".", "j", "p", "e", "g">>,
      <<"S", "1", "0", ".", "j", "p", "g">>,
      <<"S", "0", "3", ".", "J", "P", "G">>,
      <<"d", "/">>,
      <<"d", "/", "S", "4", ".", "j", "p", "g">>,
      <<"_", "_", "M", "A", "C", "O", "S", "X", "/", "S", "1", ".", "j", "p", "g">>,
      <<".", "S", "5", ".", "j", "p", "g">>,
      <<"S", "1", ".", "p", "n", "g">>,
      <<"S", ".", "j", "p", "g">>,
      <<"x", "7", ".", "j", "p", "g">>,
      <<"2", "S", "9", ".", "j", "p", "g">> }

\* archives: up to MaxEntries distinct entries in any order
Archives ==
    {a \in SeqsUpTo(EntryNames, MaxEntries) :
        \A i, j \in 1..Len(a) : i # j => a[i] # a[j]}

ZipIdle ==
    /\ zp_pc = "off"
    /\ zp_archive = <<>>
    /\ zp_k = 0
    /\ zp_files = <<>>
    /\ zp_images = <<>>

ZipStart ==
    /\ zp_pc = "scan"
    /\ zp_archive \in Archives
    /\ zp_k = 0
    /\ zp_files = <<>>
    /\ zp_images = <<>>

\* one entry of zf.namelist() is examined
ZipScan ==
    /\ zp_pc = "scan"
    /\ zp_k < Len(zp_archive)
    /\ zp_files' = ScanEntry(zp_files, zp_archive[zp_k + 1])
    /\ zp_k' = zp_k + 1
    /\ UNCHANGED <<zp_pc, zp_archive, zp_images>>

\* jpeg_files.sort(...)
ZipSort ==
    /\ zp_pc = "scan"
    /\ zp_k = Len(zp_archive)
    /\ zp_files' = SortByNum(zp_files)
    /\ zp_pc' = "load"
    /\ UNCHANGED <<zp_archive, zp_k, zp_images>>

\* the loop that opens and copies each image; return images
ZipLoad ==
    /\ zp_pc = "load"
    /\ zp_images' = LoadImages(zp_files)
    /\ zp_pc' = "done"
    /\ UNCHANGED <<zp_archive, zp_k, zp_files>>

----------------------------------------------------------------------------
(* Video generator: generate_video.py *)

\* duration=3.0, the length of a clip without audio
FallbackDuration == 3

\* lengths ffprobe may measure for an audio file
AudioDurations == {5, 8}

\* Python's None
None == <<"<None>">>

\* the notes field of a slide: no notes slide at all, or its text
NotesFields ==
    { [has |-> FALSE, text |-> <<>>],
      [has |-> TRUE, text |-> <<>>],
      [has |-> TRUE, text |-> <<" ">>],
      [has |-> TRUE, text |-> <<"a">>],
      [has |-> TRUE, text |-> <<" ", "b", NL>>] }

\* (mutation of NoteOf: the notes text is returned as it is)
NoteOfUnstripped(slide) ==
    IF slide.has /\ slide.text # <<>> THEN slide.text ELSE None

\* the body of the loop of extract_speaker_notes
NoteOf(slide) ==
    IF slide.has /\ slide.text # <<>>
    THEN IF Strip(slide.text) = <<>> THEN None ELSE Strip(slide.text)
    ELSE None

\* extract_speaker_notes
ExtractSpeakerNotes(deck) == [i \in 1..Len(deck) |-> NoteOf(deck[i])]

\* "if note:"
HasNote(note) == note # None /\ note # <<>>

\* entry names of the archives given to generate_video
VideoEntryNames ==
    { <<"S", "2", ".", "j", "p", "e", "g">>,
      <<"S", "1", "0", ".", "j", "p", "g">>,
      <<"S", "0", "3", ".", "J", "P", "G">>,
      <<"d", "/">> }

VideoArchives ==
    {a \in SeqsUpTo(VideoEntryNames, MaxEntries) :
        \A i, j \in 1..Len(a) : i # j => a[i] # a[j]}

VideoIdle ==
    /\ vd_pc = "off"
    /\ vd_deck = <<>>
    /\ vd_archive = <<>>
    /\ vd_deckOk = FALSE
    /\ vd_zipOk = FALSE
    /\ vd_notes = <<>>
    /\ vd_images = <<>>
    /\ vd_i = 0
    /\ vd_audio = FALSE
    /\ vd_duration = 0
    /\ vd_tts = <<>>
    /\ vd_sub = <<>>
    /\ vd_clips = <<>>
    /\ vd_progress = <<>>
    /\ vd_video = [written |-> FALSE, clips |-> <<>>]
    /\ vd_ret = [flag |-> "none", msg |-> "none"]

VideoStart ==
    /\ vd_pc = "start"
    /\ vd_deck \in SeqsUpTo(NotesFields, MaxSlides)
    /\ vd_archive \in VideoArchives
    /\ vd_deckOk \in BOOLEAN
    /\ vd_zipOk \in BOOLEAN
    /\ vd_notes = <<>>
    /\ vd_images = <<>>
    /\ vd_i = 0
    /\ vd_audio = FALSE
    /\ vd_duration = 0
    /\ vd_tts = <<>>
    /\ vd_sub = <<>>
    /\ vd_clips = <<>>
    /\ vd_progress = <<>>
    /\ vd_video = [written |-> FALSE, clips |-> <<>>]
    /\ vd_ret = [flag |-> "none", msg |-> "none"]

\* generate_video has not been called yet
VideoUncalled ==
    /\ vd_pc = "call"
    /\ vd_deck = <<>>
    /\ vd_archive = <<>>
    /\ vd_deckOk = FALSE
    /\ vd_zipOk = FALSE
    /\ vd_notes = <<>>
    /\ vd_images = <<>>
    /\ vd_i = 0
    /\ vd_audio = FALSE
    /\ vd_duration = 0
    /\ vd_tts = <<>>
    /\ vd_sub = <<>>
    /\ vd_clips = <<>>
    /\ vd_progress = <<>>
    /\ vd_video = [written |-> FALSE, clips |-> <<>>]
    /\ vd_ret = [flag |-> "none", msg |-> "none"]

\* the call generate_video(pptx_path, zip_path, output_path, progress_callback)
VdCall ==
    /\ vd_pc = "call"
    /\ vd_pc' = "start"
    /\ vd_deck' \in SeqsUpTo(NotesFields, MaxSlides)
    /\ vd_archive' \in VideoArchives
    /\ vd_deckOk' \in BOOLEAN
    /\ vd_zipOk' \in BOOLEAN
    /\ UNCHANGED <<vd_notes, vd_images, vd_i, vd_audio, vd_duration, vd_tts, vd_sub,
                   vd_clips, vd_progress, vd_video, vd_ret>>

\* total_steps = total_slides + 1
TotalSteps == Len(vd_images) + 1

\* number of turns of the loop over zip(images, speaker_notes)
LoopLength == IF Len(vd_notes) < Len(vd_images) THEN Len(vd_notes) ELSE Len(vd_images)

\* a return of generate_video
VdReturn(flag, msg) ==
    /\ vd_pc' = "done"
    /\ vd_ret' = [flag |-> flag, msg |-> msg]

\* (mutation of VdExcept: the exception leaves generate_video)
VdPropagate == VdReturn("raised", "none")

\* "except Exception as e: return False, ..."
VdExcept == VdReturn("failure", "error")

\* step 1: the first callback and extract_speaker_notes
VdExtractNotes ==
    /\ vd_pc = "start"
    /\ vd_progress' = Append(vd_progress, <<0, 1>>)
    /\ IF ~vd_deckOk
       THEN /\ VdExcept
            /\ UNCHANGED vd_notes
       ELSE /\ vd_notes' = ExtractSpeakerNotes(vd_deck)
            /\ vd_pc' = "images"
            /\ UNCHANGED vd_ret
    /\ UNCHANGED <<videoInputs, vd_images, vd_i, vd_audio, vd_duration, vd_tts, vd_sub,
                   vd_clips, vd_video>>

\* (mutation of VdExtractImages: the counts are not compared)
VdExtractImagesNoCompare ==
    /\ vd_pc = "images"
    /\ vd_progress' = Append(vd_progress, <<0, 1>>)
    /\ IF ~vd_zipOk
       THEN /\ VdExcept
            /\ UNCHANGED vd_images
       ELSE LET images == ExtractImagesFromZip(vd_archive) IN
            /\ vd_images' = images
            /\ IF Len(images) = 0
               THEN VdReturn("failure", "no images")
               ELSE /\ vd_pc' = "slide"
                    /\ UNCHANGED vd_ret
    /\ UNCHANGED <<videoInputs, vd_notes, vd_i, vd_audio, vd_duration, vd_tts, vd_sub,
                   vd_clips, vd_video>>

\* step 2: the second callback, extract_images_from_zip and the two checks
VdExtractImages ==
    /\ vd_pc = "images"
    /\ vd_progress' = Append(vd_progress, <<0, 1>>)
    /\ IF ~vd_zipOk
       THEN /\ VdExcept
            /\ UNCHANGED vd_images
       ELSE LET images == ExtractImagesFromZip(vd_archive) IN
            /\ vd_images' = images
            /\ IF Len(images) = 0
               THEN VdReturn("failure", "no images")
               ELSE IF Len(vd_notes) # Len(images)
               THEN VdReturn("failure", "count mismatch")
               ELSE /\ vd_pc' = "slide"
                    /\ UNCHANGED vd_ret
    /\ UNCHANGED <<videoInputs, vd_notes, vd_i, vd_audio, vd_duration, vd_tts, vd_sub,
                   vd_clips, vd_video>>

\* (mutation of VdBeginSlide: the clip of a slide without notes does not get the
\* fallback duration)
VdBeginSlideNoFallback ==
    /\ vd_pc = "slide"
    /\ vd_i < LoopLength
    /\ vd_progress' = Append(vd_progress, <<vd_i + 1, TotalSteps>>)
    /\ IF HasNote(vd_notes[vd_i + 1])
       THEN /\ vd_tts' = Append(vd_tts, [slide |-> vd_i + 1, text |-> vd_notes[vd_i + 1]])
            /\ \E ok \in BOOLEAN :
                  IF ok
                  THEN /\ vd_pc' = "probe"
                       /\ vd_audio' = TRUE
                       /\ UNCHANGED vd_ret
                  ELSE /\ VdExcept
                       /\ UNCHANGED vd_audio
            /\ UNCHANGED vd_duration
       ELSE /\ vd_pc' = "mux"
            /\ vd_audio' = FALSE
            /\ UNCHANGED <<vd_duration, vd_tts, vd_ret>>
    /\ UNCHANGED <<videoInputs, vd_notes, vd_images, vd_i, vd_sub, vd_clips, vd_video>>

\* the start of one turn of the loop: the callback and, for a slide with notes, the
\* TTS call
VdBeginSlide ==
    /\ vd_pc = "slide"
    /\ vd_i < LoopLength
    /\ vd_progress' = Append(vd_progress, <<vd_i + 1, TotalSteps>>)
    /\ IF HasNote(vd_notes[vd_i + 1])
       THEN /\ vd_tts' = Append(vd_tts, [slide |-> vd_i + 1, text |-> vd_notes[vd_i + 1]])
            /\ \E ok \in BOOLEAN :
                  IF ok
                  THEN /\ vd_pc' = "probe"
                       /\ vd_audio' = TRUE
                       /\ UNCHANGED vd_ret
                  ELSE /\ VdExcept
                       /\ UNCHANGED vd_audio
            /\ UNCHANGED vd_duration
       ELSE /\ vd_pc' = "mux"
            /\ vd_audio' = FALSE
            /\ vd_duration' = FallbackDuration
            /\ UNCHANGED <<vd_tts, vd_ret>>
    /\ UNCHANGED <<videoInputs, vd_notes, vd_images, vd_i, vd_sub, vd_clips, vd_video>>

\* create_slide_video with an audio file: ffprobe measures the audio; without a
\* number on its output float() raises
VdProbe ==
    /\ vd_pc = "probe"
    /\ vd_sub' = Append(vd_sub, [tool |-> "ffprobe", slide |-> vd_i + 1,
                                 audio |-> TRUE, duration |-> 0])
    /\ \/ \E d \in AudioDurations :
             /\ vd_duration' = d
             /\ vd_pc' = "mux"
             /\ UNCHANGED vd_ret
       \/ /\ VdExcept
          /\ UNCHANGED vd_duration
    /\ UNCHANGED <<videoInputs, vd_notes, vd_images, vd_i, vd_audio, vd_tts, vd_clips,
                   vd_progress, vd_video>>

\* (mutation of VdMux: after a failed ffmpeg run the loop goes on with the next slide)
VdMuxSkipFailed ==
    /\ vd_pc = "mux"
    /\ vd_sub' = Append(vd_sub, [tool |-> "ffmpeg", slide |-> vd_i + 1,
                                 audio |-> vd_audio, duration |-> vd_duration])
    /\ \E ok \in BOOLEAN :
          vd_clips' = IF ok
                      THEN Append(vd_clips,
                                  [slide |-> vd_i + 1, image |-> vd_images[vd_i + 1],
                                   audio |-> vd_audio, duration |-> vd_duration])
                      ELSE vd_clips
    /\ vd_i' = vd_i + 1
    /\ vd_pc' = "slide"
    /\ UNCHANGED <<videoInputs, vd_notes, vd_images, vd_audio, vd_duration, vd_tts,
                   vd_progress, vd_video, vd_ret>>

\* (mutation of VdMux: the new clip is put in front of video_paths)
VdMuxPrepend ==
    /\ vd_pc = "mux"
    /\ vd_sub' = Append(vd_sub, [tool |-> "ffmpeg", slide |-> vd_i + 1,
                                 audio |-> vd_audio, duration |-> vd_duration])
    /\ \E ok \in BOOLEAN :
          IF ok
          THEN /\ vd_clips' = <<[slide |-> vd_i + 1, image |-> vd_images[vd_i + 1],
                                 audio |-> vd_audio, duration |-> vd_duration]>>
                               \o vd_clips
               /\ vd_i' = vd_i + 1
               /\ vd_pc' = "slide"
               /\ UNCHANGED vd_ret
          ELSE /\ VdExcept
               /\ UNCHANGED <<vd_clips, vd_i>>
    /\ UNCHANGED <<videoInputs, vd_notes, vd_images, vd_audio, vd_duration, vd_tts,
                   vd_progress, vd_video>>

\* create_slide_video: the ffmpeg run that makes the clip of the slide; a non-zero
\* exit raises CalledProcessError
VdMux ==
    /\ vd_pc = "mux"
    /\ vd_sub' = Append(vd_sub, [tool |-> "ffmpeg", slide |-> vd_i + 1,
                                 audio |-> vd_audio, duration |-> vd_duration])
    /\ \E ok \in BOOLEAN :
          IF ok
          THEN /\ vd_clips' = Append(vd_clips,
                                     [slide |-> vd_i + 1, image |-> vd_images[vd_i + 1],
                                      audio |-> vd_audio, duration |-> vd_duration])
               /\ vd_i' = vd_i + 1
               /\ vd_pc' = "slide"
               /\ UNCHANGED vd_ret
          ELSE /\ VdExcept
               /\ UNCHANGED <<vd_clips, vd_i>>
    /\ UNCHANGED <<videoInputs, vd_notes, vd_images, vd_audio, vd_duration, vd_tts,
                   vd_progress, vd_video>>

\* step 4: the callback, combine_videos, the final callback and return True
VdCombine ==
    /\ vd_pc = "slide"
    /\ vd_i = LoopLength
    /\ vd_sub' = Append(vd_sub, [tool |-> "ffmpeg-concat", slide |-> 0,
                                 audio |-> FALSE, duration |-> 0])
    /\ \E ok \in BOOLEAN :
          IF ok
          THEN /\ vd_video' = [written |-> TRUE, clips |-> vd_clips]
               /\ vd_progress' = Append(Append(vd_progress, <<Len(vd_images) + 1, TotalSteps>>),
                                        <<TotalSteps, TotalSteps>>)
               /\ VdReturn("success", "complete")
          ELSE /\ vd_progress' = Append(vd_progress, <<Len(vd_images) + 1, TotalSteps>>)
               /\ VdExcept
               /\ UNCHANGED vd_video
    /\ UNCHANGED <<videoInputs, vd_notes, vd_images, vd_i, vd_audio, vd_duration, vd_tts,
                   vd_clips>>

----------------------------------------------------------------------------
(* Text stages and constructors: generate_outline.py, outline_to_json.py,
   SpeakerNotesGenerator.__init__, VideoGenerator.__init__ *)

\* api_key is None / the environment variable is not set
NoKey == "<None>"
ApiKeys == {NoKey, "", "sk"}

Callables == {"generate_outline_from_text", "convert_outline_to_json",
              "SpeakerNotesGenerator", "VideoGenerator"}
IsConstructor(f) == f \in {"SpeakerNotesGenerator", "VideoGenerator"}

\* a test for None only
IsNoneKey(key) == key = NoKey

\* `not api_key`: None and the empty string are falsy
NotKey(key) == key \in {NoKey, ""}

\* api_key after `if api_key is None: api_key = os.environ.get(...)`;
\* VideoGenerator takes its key from the argument only
ResolveKey(f, arg, env) ==
    IF f # "VideoGenerator" /\ arg = NoKey THEN env ELSE arg

\* the code fence of three backquotes; the backquote is written "^"
Fence == <<"^", "^", "^">>
JsonFence == Fence \o <<"j", "s", "o", "n">>

\* texts the model may reply with
Replies ==
    { <<"T">>,
      <<" ", "T", NL>>,
      Fence \o <<NL, "T", NL>> \o Fence,
      Fence \o <<NL, "T", NL, "U">>,
      Fence \o <<NL, "T">>,
      <<"{", "}">>,
      <<"{">>,
      JsonFence \o <<NL, "{", "}", NL>> \o Fence,
      JsonFence \o <<NL, "{", NL>> \o Fence,
      JsonFence \o <<NL, "{", "}">>,
      Fence \o <<NL, "{", "}", NL>> \o Fence }

\* the removal of a surrounding code fence in generate_outline_from_text
OutlineUnfence(txt) ==
    LET lines == Split(txt, NL)
    IN IF StartsWith(txt, Fence) /\ Len(lines) > 2
       THEN Join(<<NL>>, SubSeq(lines, 2, Len(lines) - 1))
       ELSE txt

\* (mutation of JsonUnfence: the closing fence is left in place)
JsonUnfenceLeadOnly(txt) ==
    LET a == IF StartsWith(txt, JsonFence) THEN SubSeq(txt, 8, Len(txt)) ELSE txt
        b == IF StartsWith(a, Fence) THEN SubSeq(a, 4, Len(a)) ELSE a
    IN Strip(b)

\* the removal of the code fence in convert_outline_to_json
JsonUnfence(txt) ==
    LET a == IF StartsWith(txt, JsonFence) THEN SubSeq(txt, 8, Len(txt)) ELSE txt
        b == IF StartsWith(a, Fence) THEN SubSeq(a, 4, Len(a)) ELSE a
        c == IF EndsWith(b, Fence) THEN SubSeq(b, 1, Len(b) - 3) ELSE b
    IN Strip(c)

\* json.loads accepts the text (the only JSON document of the model is "{}")
IsJson(txt) == txt = <<"{", "}">>

NoReturn == [kind |-> "none", text |-> <<>>]

TextIdle ==
    /\ tx_fn = "generate_outline_from_text"
    /\ tx_arg = NoKey
    /\ tx_env = NoKey
    /\ tx_pc = "idle"
    /\ tx_key = NoKey
    /\ tx_client = FALSE
    /\ tx_calls = <<>>
    /\ tx_text = <<>>
    /\ tx_ret = NoReturn

TextStart ==
    /\ tx_fn \in Callables
    /\ tx_arg \in ApiKeys
    /\ tx_env \in ApiKeys
    /\ tx_pc = "start"
    /\ tx_key = NoKey
    /\ tx_client = FALSE
    /\ tx_calls = <<>>
    /\ tx_text = <<>>
    /\ tx_ret = NoReturn

\* the key is taken from the argument or the environment and tested
TxCheckKey ==
    /\ tx_pc = "start"
    /\ tx_key' = ResolveKey(tx_fn, tx_arg, tx_env)
    /\ IF NotKey(tx_key')
       THEN /\ tx_pc' = "raised"
            /\ tx_ret' = [kind |-> "ValueError", text |-> <<>>]
       ELSE /\ tx_pc' = "keyed"
            /\ tx_ret' = tx_ret
    /\ UNCHANGED <<textInputs, tx_client, tx_calls, tx_text>>

\* Anthropic(api_key=...) / genai.Client(api_key=...); a constructor ends here
TxMakeClient ==
    /\ tx_pc = "keyed"
    /\ tx_client' = TRUE
    /\ IF IsConstructor(tx_fn)
       THEN /\ tx_pc' = "done"
            /\ tx_ret' = [kind |-> "object", text |-> <<>>]
       ELSE /\ tx_pc' = "client"
            /\ tx_ret' = tx_ret
    /\ UNCHANGED <<textInputs, tx_key, tx_calls, tx_text>>

\* client.messages.create(...): the call raises or replies; the reply is stripped
TxComplete ==
    /\ tx_pc = "client"
    /\ tx_calls' = Append(tx_calls, "completion")
    /\ \E ok \in BOOLEAN :
          IF ok
          THEN \E r \in Replies :
                  /\ tx_text' = Strip(r)
                  /\ tx_pc' = "replied"
                  /\ tx_ret' = tx_ret
          ELSE /\ tx_pc' = "raised"
               /\ tx_ret' = [kind |-> "APIError", text |-> <<>>]
               /\ tx_text' = tx_text
    /\ UNCHANGED <<textInputs, tx_key, tx_client>>

\* generate_outline_from_text: the fence is removed and the outline returned
TxReturnOutline ==
    /\ tx_pc = "replied"
    /\ tx_fn = "generate_outline_from_text"
    /\ tx_text' = OutlineUnfence(tx_text)
    /\ tx_pc' = "done"
    /\ tx_ret' = [kind |-> "text", text |-> tx_text']
    /\ UNCHANGED <<textInputs, tx_key, tx_client, tx_calls>>

\* convert_outline_to_json: the fence is removed and the text parsed
TxParseJson ==
    /\ tx_pc = "replied"
    /\ tx_fn = "convert_outline_to_json"
    /\ tx_text' = JsonUnfence(tx_text)
    /\ IF IsJson(tx_text')
       THEN /\ tx_pc' = "done"
            /\ tx_ret' = [kind |-> "object", text |-> tx_text']
       ELSE /\ tx_pc' = "raised"
            /\ tx_ret' = [kind |-> "JSONDecodeError", text |-> <<>>]
    /\ UNCHANGED <<textInputs, tx_key, tx_client, tx_calls>>

----------------------------------------------------------------------------
(* Slide-generation stage of the UI: app.py, tab 2 *)

Sessions == {1, 2}

\* the structure objects convert_outline_to_json may return, named by their title
Structures == {"x", "y"}
NoStructure == "none"

\* a file that does not exist
NoFile == <<>>

\* json.dump(json_data, f) and json.load(f)
DumpJson(j) == <<"json", j>>
LoadJson(file) == file[2]

\* the deck create_slides_from_json builds from a structure object
BuildDeck(j) == <<"deck", j>>

\* f"{json_data['title']}.pptx"
DeckFilename(j) == <<j, ".pptx">>

EmptySession == [json_data |-> NoStructure, pptx_data |-> NoFile, pptx_filename |-> NoFile]

StageIdle ==
    /\ ui_pc = [s \in Sessions |-> "off"]
    /\ ui_attempts = [s \in Sessions |-> 0]
    /\ ui_local = [s \in Sessions |-> NoStructure]
    /\ ui_content = [s \in Sessions |-> NoStructure]
    /\ ui_session = [s \in Sessions |-> EmptySession]
    /\ ui_last = [s \in Sessions |-> "none"]
    /\ ui_fs = [json |-> NoFile, deck |-> NoFile]

StageStart ==
    /\ ui_pc = [s \in Sessions |-> "idle"]
    /\ ui_attempts = [s \in Sessions |-> 0]
    /\ ui_local = [s \in Sessions |-> NoStructure]
    /\ ui_content = [s \in Sessions |-> NoStructure]
    /\ ui_session = [s \in Sessions |-> EmptySession]
    /\ ui_last = [s \in Sessions |-> "none"]
    /\ ui_fs = [json |-> NoFile, deck |-> NoFile]

\* the handler ends: st.error / st.success, back to the page
UiEnd(s, how) ==
    /\ ui_pc' = [ui_pc EXCEPT ![s] = "idle"]
    /\ ui_last' = [ui_last EXCEPT ![s] = how]

\* the button is clicked: the checks of the inputs, then step 1,
\* convert_outline_to_json, whose result is put into the session state
UiClick(s) ==
    /\ ui_pc[s] = "idle"
    /\ ui_attempts[s] < MaxAttempts
    /\ ui_attempts' = [ui_attempts EXCEPT ![s] = @ + 1]
    /\ \/ /\ UiEnd(s, "rejected")
          /\ UNCHANGED <<ui_local, ui_session>>
       \/ /\ UiEnd(s, "conversion failed")
          /\ UNCHANGED <<ui_local, ui_session>>
       \/ \E j \in Structures :
             /\ ui_local' = [ui_local EXCEPT ![s] = j]
             /\ ui_session' = [ui_session EXCEPT ![s].json_data = j]
             /\ ui_pc' = [ui_pc EXCEPT ![s] = "dump"]
             /\ UNCHANGED ui_last
    /\ UNCHANGED <<ui_content, ui_fs>>

\* step 2: json_data is written to /tmp/lecture.json
UiDumpJson(s) ==
    /\ ui_pc[s] = "dump"
    /\ ui_fs' = [ui_fs EXCEPT !.json = DumpJson(ui_local[s])]
    /\ ui_pc' = [ui_pc EXCEPT ![s] = "load"]
    /\ UNCHANGED <<ui_attempts, ui_local, ui_content, ui_session, ui_last>>

\* create_slides_from_json: the file at json_path and the template are loaded
UiLoadJson(s) ==
    /\ ui_pc[s] = "load"
    /\ \/ /\ ui_content' = [ui_content EXCEPT ![s] = LoadJson(ui_fs.json)]
          /\ ui_pc' = [ui_pc EXCEPT ![s] = "save"]
          /\ UNCHANGED ui_last
       \/ /\ UiEnd(s, "build failed")
          /\ UNCHANGED ui_content
    /\ UNCHANGED <<ui_attempts, ui_local, ui_session, ui_fs>>

\* create_slides_from_json: the slides are built and the deck is saved at
\* /tmp/generated_slides.pptx
UiSaveDeck(s) ==
    /\ ui_pc[s] = "save"
    /\ \/ /\ ui_fs' = [ui_fs EXCEPT !.deck = BuildDeck(ui_content[s])]
          /\ ui_pc' = [ui_pc EXCEPT ![s] = "read"]
          /\ UNCHANGED ui_last
       \/ /\ UiEnd(s, "build failed")
          /\ UNCHANGED ui_fs
    /\ UNCHANGED <<ui_attempts, ui_local, ui_content, ui_session>>

\* the file at output_path is read back into the session state
UiReadDeck(s) ==
    /\ ui_pc[s] = "read"
    /\ ui_session' = [ui_session EXCEPT ![s].pptx_data = ui_fs.deck,
                                        ![s].pptx_filename = DeckFilename(ui_local[s])]
    /\ UiEnd(s, "success")
    /\ UNCHANGED <<ui_attempts, ui_local, ui_content, ui_fs>>

----------------------------------------------------------------------------
(* Properties of the speaker-notes generator *)

Separator == <<NL, NL>>

\* the slides add_notes_to_pptx reaches: those with an entry of notes_list
Reached(e) == {i \in 1..Len(nt_deck) : i <= Len(nt_notes[e])}

\* C3 as stated: a slide with non-empty notes text old ends with
\* old + "\n\n" + notes_list[i], a slide without notes text with notes_list[i].
C3_AppendIfNonEmpty ==
    \A e \in Entries :
        nt_out[e].written =>
            \A i \in Reached(e) :
                nt_out[e].slides[i] =
                    IF nt_deck[i] # <<>>
                    THEN nt_deck[i] \o Separator \o nt_notes[e][i]
                    ELSE nt_notes[e][i]

\* C3 (amended): for every slide i that is reached, if its notes text old holds a
\* character that is not whitespace, its notes after the call are
\* old + "\n\n" + notes_list[i] (old is kept in full); if old is empty or
\* whitespace-only, its notes are exactly notes_list[i].
C3_AppendIfNotBlank ==
    \A e \in Entries :
        nt_out[e].written =>
            \A i \in Reached(e) :
                /\ (\E k \in 1..Len(nt_deck[i]) : nt_deck[i][k] \notin Whitespace) =>
                      /\ nt_out[e].slides[i] = nt_deck[i] \o Separator \o nt_notes[e][i]
                      /\ StartsWith(nt_out[e].slides[i], nt_deck[i])
                /\ (\A k \in 1..Len(nt_deck[i]) : nt_deck[i][k] \in Whitespace) =>
                      nt_out[e].slides[i] = nt_notes[e][i]

C3_Witness ==
    /\ nt_out["process_pptx_with_pdf"].written
    /\ Len(nt_deck) = 2
    /\ nt_deck[1] = <<"a">>
    /\ nt_deck[2] = <<" ">>
    /\ Reached("process_pptx_with_pdf") = {1, 2}
    /\ nt_failing = {}

\* the write phase of the run was announced: the generation loop has ended
ReachedWritePhase(e) ==
    \E k \in 1..Len(nt_progress[e]) : nt_progress[e][k][1] = ProgressTotal(e) - 1

\* C8: a failed vision call is replaced by the placeholder of its slide, the other
\* slides are still processed (one call per page, in page order), the notes list has
\* one entry per page in page order, and the failures of vision calls never make
\* the run fail.
C8_PerSlideTolerance ==
    \A e \in Entries :
        /\ nt_vision[e] = [k \in 1..Len(nt_notes[e]) |-> k]
        /\ \A k \in 1..Len(nt_notes[e]) :
              /\ k \in nt_failing =>
                    /\ StartsWith(nt_notes[e][k], <<"s", "l", "i", "d", "e", " ">>)
                    /\ nt_notes[e][k] = Placeholder(k)
              /\ k \notin nt_failing => nt_notes[e][k] = <<"r">> \o IntToStr(k)
        /\ ReachedWritePhase(e) => Len(nt_notes[e]) = nt_pages
        /\ (nt_pc[e] = "done" /\ ReachedWritePhase(e) /\ nt_deckOk) =>
              /\ nt_ret[e] = "success"
              /\ nt_out[e].written
        /\ (nt_pc[e] = "generate" /\ nt_notes[e] # <<>>) => nt_ret[e] = "none"

C8_Witness ==
    /\ nt_ret["process_pptx_with_pdf"] = "success"
    /\ nt_pages = 3
    /\ nt_failing = {1, 2}
    /\ Len(nt_notes["process_pptx_with_pdf"]) = 3
    /\ nt_notes["process_pptx_with_pdf"][3] = <<"r", "3">>

\* C9: add_notes_to_pptx writes by position: slide i receives notes_list[i] for every
\* i below both counts, the notes beyond the slide count are dropped without error,
\* the slides beyond the notes count keep their notes.
C9_PositionalWrite ==
    \A e \in Entries :
        nt_out[e].written =>
            /\ nt_ret[e] = "success"
            /\ Len(nt_out[e].slides) = Len(nt_deck)
            /\ \A i \in 1..Len(nt_deck) :
                  IF i <= Len(nt_notes[e])
                  THEN EndsWith(nt_out[e].slides[i], nt_notes[e][i])
                  ELSE nt_out[e].slides[i] = nt_deck[i]

C9_Witness ==
    /\ nt_out["process_pptx_with_pdf"].written
    /\ Len(nt_deck) = 2
    /\ Len(nt_notes["process_pptx_with_pdf"]) = 3
    /\ nt_notes["process_pptx_with_pdf"][1] # nt_notes["process_pptx_with_pdf"][2]

\* C10: for every input deck whose conversion succeeds and yields the pages of the
\* supplied PDF, and for the same vision replies, process_pptx and
\* process_pptx_with_pdf return the same flag and the same notes list and write the
\* same notes into the output deck.
C10_EntryPointsEquivalent ==
    (/\ nt_pc["process_pptx"] = "done"
     /\ nt_pc["process_pptx_with_pdf"] = "done"
     /\ nt_convOk) =>
        /\ nt_ret["process_pptx"] = nt_ret["process_pptx_with_pdf"]
        /\ nt_notes["process_pptx"] = nt_notes["process_pptx_with_pdf"]
        /\ nt_out["process_pptx"] = nt_out["process_pptx_with_pdf"]

\* C20: in process_pptx, when the document-to-PDF converter exits non-zero, the run
\* is aborted at once: it returns the failure flag (with a message) and an empty
\* notes list, no vision-model call is issued and no output deck is written.
C20_ConverterFailure ==
    LET e == "process_pptx"
    IN (nt_pc[e] \notin {"off", "start"} /\ ~nt_convOk) =>
          /\ nt_pc[e] = "done"
          /\ nt_ret[e] = "failure"
          /\ nt_notes[e] = <<>>
          /\ nt_vision[e] = <<>>
          /\ ~nt_out[e].written
          /\ nt_progress[e] = <<<<0, 4>>>>

C20_Witness ==
    /\ ~nt_convOk
    /\ nt_pc["process_pptx"] = "done"
    /\ nt_ret["process_pptx"] = "failure"
    /\ nt_ret["process_pptx_with_pdf"] = "success"
    /\ nt_pages = 2
    /\ Len(nt_vision["process_pptx_with_pdf"]) = 2
    /\ nt_vision["process_pptx"] = <<>>

\* the total the entry point reports: 3 phases, or 4 with the conversion
PhaseCount(e) == IF e = "process_pptx" THEN 4 ELSE 3

\* the callback was invoked with the given completed count
Reported(e, completed) ==
    \E k \in 1..Len(nt_progress[e]) : nt_progress[e][k][1] = completed

\* C23: in notes generation the progress callback gets a constant total (3 in
\* process_pptx_with_pdf, 4 in process_pptx) and a completed count that starts at 0
\* and grows by exactly 1 at each invocation; each invocation precedes the phase it
\* names (conversion, vision calls, writing of the deck); completed = total is
\* reported only after the output deck was written and never in a failed run.
C23_NotesProgress ==
    \A e \in Entries :
        /\ \A k \in 1..Len(nt_progress[e]) : nt_progress[e][k] = <<k - 1, PhaseCount(e)>>
        /\ Len(nt_progress[e]) <= PhaseCount(e) + 1
        /\ nt_tmp[e] # {} => Reported(e, 0)
        /\ nt_vision[e] # <<>> => Reported(e, PhaseCount(e) - 2)
        /\ nt_out[e].written => Reported(e, PhaseCount(e) - 1)
        /\ Reported(e, PhaseCount(e)) => (nt_out[e].written /\ nt_ret[e] = "success")
        /\ nt_ret[e] = "success" => Len(nt_progress[e]) = PhaseCount(e) + 1

\* a run whose vision calls were made and whose deck could not be written
C23_Witness ==
    /\ nt_pages = 2
    /\ nt_ret["process_pptx_with_pdf"] = "failure"
    /\ nt_progress["process_pptx_with_pdf"] = << <<0, 3>>, <<1, 3>>, <<2, 3>> >>
    /\ nt_vision["process_pptx_with_pdf"] = <<1, 2>>
    /\ nt_ret["process_pptx"] = "failure"
    /\ nt_progress["process_pptx"] = << <<0, 4>>, <<1, 4>>, <<2, 4>>, <<3, 4>> >>

----------------------------------------------------------------------------
(* The deck written by the notes generator, given to the video generator *)

\* the deck saved by add_notes_to_pptx as extract_speaker_notes reads it:
\* slide.notes_slide has created the notes slide of every slide that was reached
DeckWithNotes(e) ==
    [i \in 1..Len(nt_out[e].slides) |->
        [has |-> i \in Reached(e) \/ nt_out[e].slides[i] # <<>>,
         text |-> nt_out[e].slides[i]]]

\* generate_video is called on the deck an entry point of the notes generator has
\* written, with an archive of one entry per slide
VdCallOnDeck(e) ==
    /\ vd_pc = "call"
    /\ \A f \in Entries : nt_pc[f] = "done"
    /\ nt_out[e].written
    /\ vd_pc' = "start"
    /\ vd_deck' = DeckWithNotes(e)
    /\ vd_archive' \in {a \in VideoArchives : Len(a) = Len(nt_out[e].slides)}
    /\ vd_deckOk' \in BOOLEAN
    /\ vd_zipOk' \in BOOLEAN
    /\ UNCHANGED <<vd_notes, vd_images, vd_i, vd_audio, vd_duration, vd_tts, vd_sub,
                   vd_clips, vd_progress, vd_video, vd_ret>>

----------------------------------------------------------------------------
(* Specifications: one per component, the other components at rest *)

InitSlides == SlidesStart /\ NotesIdle /\ ZipIdle /\ VideoIdle /\ TextIdle /\ StageIdle

NextSlides ==
    \/ LoadInputs /\ UNCHANGED <<notesVars, zipVars, videoVars, textVars, stageVars>>
    \/ AddTitleSlide /\ UNCHANGED <<notesVars, zipVars, videoVars, textVars, stageVars>>
    \/ AddAgendaSlide /\ UNCHANGED <<notesVars, zipVars, videoVars, textVars, stageVars>>
    \/ AddContentSlides /\ UNCHANGED <<notesVars, zipVars, videoVars, textVars, stageVars>>
    \/ AddClosingSlide /\ UNCHANGED <<notesVars, zipVars, videoVars, textVars, stageVars>>
    \/ SaveDeck /\ UNCHANGED <<notesVars, zipVars, videoVars, textVars, stageVars>>

InitNotes == NotesStart /\ SlidesIdle /\ ZipIdle /\ VideoIdle /\ TextIdle /\ StageIdle

NextNotes ==
    \/ \E e \in Entries : MayRun(e) /\ ConvertToPdf(e) /\ UNCHANGED <<slidesVars, zipVars, videoVars, textVars, stageVars>>
    \/ \E e \in Entries : MayRun(e) /\ PdfToImages(e) /\ UNCHANGED <<slidesVars, zipVars, videoVars, textVars, stageVars>>
    \/ \E e \in Entries : MayRun(e) /\ GenerateOne(e) /\ UNCHANGED <<slidesVars, zipVars, videoVars, textVars, stageVars>>
    \/ \E e \in Entries : MayRun(e) /\ WriteNotes(e) /\ UNCHANGED <<slidesVars, zipVars, videoVars, textVars, stageVars>>

InitZip == ZipStart /\ SlidesIdle /\ NotesIdle /\ VideoIdle /\ TextIdle /\ StageIdle

NextZip ==
    \/ ZipScan /\ UNCHANGED <<slidesVars, notesVars, videoVars, textVars, stageVars>>
    \/ ZipSort /\ UNCHANGED <<slidesVars, notesVars, videoVars, textVars, stageVars>>
    \/ ZipLoad /\ UNCHANGED <<slidesVars, notesVars, videoVars, textVars, stageVars>>

InitVideo == VideoStart /\ SlidesIdle /\ NotesIdle /\ ZipIdle /\ TextIdle /\ StageIdle

NextVideo ==
    \/ VdExtractNotes /\ UNCHANGED <<slidesVars, notesVars, zipVars, textVars, stageVars>>
    \/ VdExtractImages /\ UNCHANGED <<slidesVars, notesVars, zipVars, textVars, stageVars>>
    \/ VdBeginSlide /\ UNCHANGED <<slidesVars, notesVars, zipVars, textVars, stageVars>>
    \/ VdProbe /\ UNCHANGED <<slidesVars, notesVars, zipVars, textVars, stageVars>>
    \/ VdMux /\ UNCHANGED <<slidesVars, notesVars, zipVars, textVars, stageVars>>
    \/ VdCombine /\ UNCHANGED <<slidesVars, notesVars, zipVars, textVars, stageVars>>

InitText == TextStart /\ SlidesIdle /\ NotesIdle /\ ZipIdle /\ VideoIdle /\ StageIdle

InitStage == StageStart /\ SlidesIdle /\ NotesIdle /\ ZipIdle /\ VideoIdle /\ TextIdle

NextStage ==
    \/ \E s \in Sessions : UiClick(s) /\ UNCHANGED <<slidesVars, notesVars, zipVars, videoVars, textVars>>
    \/ \E s \in Sessions : UiDumpJson(s) /\ UNCHANGED <<slidesVars, notesVars, zipVars, videoVars, textVars>>
    \/ \E s \in Sessions : UiLoadJson(s) /\ UNCHANGED <<slidesVars, notesVars, zipVars, videoVars, textVars>>
    \/ \E s \in Sessions : UiSaveDeck(s) /\ UNCHANGED <<slidesVars, notesVars, zipVars, videoVars, textVars>>
    \/ \E s \in Sessions : UiReadDeck(s) /\ UNCHANGED <<slidesVars, notesVars, zipVars, videoVars, textVars>>

NextText ==
    \/ TxCheckKey /\ UNCHANGED <<slidesVars, notesVars, zipVars, videoVars, stageVars>>
    \/ TxMakeClient /\ UNCHANGED <<slidesVars, notesVars, zipVars, videoVars, stageVars>>
    \/ TxComplete /\ UNCHANGED <<slidesVars, notesVars, zipVars, videoVars, stageVars>>
    \/ TxReturnOutline /\ UNCHANGED <<slidesVars, notesVars, zipVars, videoVars, stageVars>>
    \/ TxParseJson /\ UNCHANGED <<slidesVars, notesVars, zipVars, videoVars, stageVars>>

\* the components that issue external calls, one of them running
InitCalls == InitNotes \/ InitVideo \/ InitText

NextCalls ==
    \/ \E e \in Entries : MayRun(e) /\ ConvertToPdf(e) /\ UNCHANGED <<slidesVars, zipVars, videoVars, textVars, stageVars>>
    \/ \E e \in Entries : MayRun(e) /\ PdfToImages(e) /\ UNCHANGED <<slidesVars, zipVars, videoVars, textVars, stageVars>>
    \/ \E e \in Entries : MayRun(e) /\ GenerateOne(e) /\ UNCHANGED <<slidesVars, zipVars, videoVars, textVars, stageVars>>
    \/ \E e \in Entries : MayRun(e) /\ WriteNotes(e) /\ UNCHANGED <<slidesVars, zipVars, videoVars, textVars, stageVars>>
    \/ VdExtractNotes /\ UNCHANGED <<slidesVars, notesVars, zipVars, textVars, stageVars>>
    \/ VdExtractImages /\ UNCHANGED <<slidesVars, notesVars, zipVars, textVars, stageVars>>
    \/ VdBeginSlide /\ UNCHANGED <<slidesVars, notesVars, zipVars, textVars, stageVars>>
    \/ VdProbe /\ UNCHANGED <<slidesVars, notesVars, zipVars, textVars, stageVars>>
    \/ VdMux /\ UNCHANGED <<slidesVars, notesVars, zipVars, textVars, stageVars>>
    \/ VdCombine /\ UNCHANGED <<slidesVars, notesVars, zipVars, textVars, stageVars>>
    \/ TxCheckKey /\ UNCHANGED <<slidesVars, notesVars, zipVars, videoVars, stageVars>>
    \/ TxMakeClient /\ UNCHANGED <<slidesVars, notesVars, zipVars, videoVars, stageVars>>
    \/ TxComplete /\ UNCHANGED <<slidesVars, notesVars, zipVars, videoVars, stageVars>>
    \/ TxReturnOutline /\ UNCHANGED <<slidesVars, notesVars, zipVars, videoVars, stageVars>>
    \/ TxParseJson /\ UNCHANGED <<slidesVars, notesVars, zipVars, videoVars, stageVars>>

SpecSlides == InitSlides /\ [][NextSlides]_vars

SpecNotes == InitNotes /\ [][NextNotes]_vars

SpecZip == InitZip /\ [][NextZip]_vars

SpecVideo == InitVideo /\ [][NextVideo]_vars

SpecText == InitText /\ [][NextText]_vars

SpecCalls == InitCalls /\ [][NextCalls]_vars

\* stages 4 and 5 in a row: the notes generator, then generate_video on its deck
InitPipeline == NotesStart /\ VideoUncalled /\ SlidesIdle /\ ZipIdle /\ TextIdle /\ StageIdle

NextPipeline ==
    \/ \E e \in Entries : MayRun(e) /\ ConvertToPdf(e) /\ UNCHANGED <<slidesVars, zipVars, videoVars, textVars, stageVars>>
    \/ \E e \in Entries : MayRun(e) /\ PdfToImages(e) /\ UNCHANGED <<slidesVars, zipVars, videoVars, textVars, stageVars>>
    \/ \E e \in Entries : MayRun(e) /\ GenerateOne(e) /\ UNCHANGED <<slidesVars, zipVars, videoVars, textVars, stageVars>>
    \/ \E e \in Entries : MayRun(e) /\ WriteNotes(e) /\ UNCHANGED <<slidesVars, zipVars, videoVars, textVars, stageVars>>
    \/ \E e \in Entries : VdCallOnDeck(e) /\ UNCHANGED <<slidesVars, notesVars, zipVars, textVars, stageVars>>
    \/ VdExtractNotes /\ UNCHANGED <<slidesVars, notesVars, zipVars, textVars, stageVars>>
    \/ VdExtractImages /\ UNCHANGED <<slidesVars, notesVars, zipVars, textVars, stageVars>>
    \/ VdBeginSlide /\ UNCHANGED <<slidesVars, notesVars, zipVars, textVars, stageVars>>
    \/ VdProbe /\ UNCHANGED <<slidesVars, notesVars, zipVars, textVars, stageVars>>
    \/ VdMux /\ UNCHANGED <<slidesVars, notesVars, zipVars, textVars, stageVars>>
    \/ VdCombine /\ UNCHANGED <<slidesVars, notesVars, zipVars, textVars, stageVars>>

SpecPipeline == InitPipeline /\ [][NextPipeline]_vars

\* generate_video from its call on; it runs in one thread of control, so from the
\* loop over the slides on (all that the property of the run's course needs) a
\* step that can be taken is taken
InitLiveVideo ==
    VideoUncalled /\ SlidesIdle /\ NotesIdle /\ ZipIdle /\ TextIdle /\ StageIdle

NextLiveVideo ==
    \/ VdCall /\ UNCHANGED <<slidesVars, notesVars, zipVars, textVars, stageVars>>
    \/ VdExtractNotes /\ UNCHANGED <<slidesVars, notesVars, zipVars, textVars, stageVars>>
    \/ VdExtractImages /\ UNCHANGED <<slidesVars, notesVars, zipVars, textVars, stageVars>>
    \/ VdBeginSlide /\ UNCHANGED <<slidesVars, notesVars, zipVars, textVars, stageVars>>
    \/ VdProbe /\ UNCHANGED <<slidesVars, notesVars, zipVars, textVars, stageVars>>
    \/ VdMux /\ UNCHANGED <<slidesVars, notesVars, zipVars, textVars, stageVars>>
    \/ VdCombine /\ UNCHANGED <<slidesVars, notesVars, zipVars, textVars, stageVars>>

LiveVideo ==
    /\ InitLiveVideo
    /\ [][NextLiveVideo]_vars
    /\ WF_videoVars(VdBeginSlide)
    /\ WF_videoVars(VdProbe)
    /\ WF_videoVars(VdMux)
    /\ WF_videoVars(VdCombine)

SpecStage == InitStage /\ [][NextStage]_vars

----------------------------------------------------------------------------
(* Properties of the video generator *)

\* the entries of the archive that hold a slide image
ImageCount == Cardinality({i \in 1..Len(vd_archive) : IsKept(vd_archive[i])})

\* the counts of the deck and of the archive do not allow a run
CountsRejected == ImageCount = 0 \/ Len(vd_deck) # ImageCount

\* the callback was given a per-slide or combining phase
PerSlideProgress == \E k \in 1..Len(vd_progress) : vd_progress[k] # <<0, 1>>

\* C4: when the number of notes entries differs from the number of images, or no
\* image is found, the run returns failure with a message that names the cause, and
\* no TTS call, no ffprobe/ffmpeg invocation and no per-slide work is ever made.
C4_FailFast ==
    CountsRejected =>
        /\ vd_tts = <<>>
        /\ vd_sub = <<>>
        /\ vd_clips = <<>>
        /\ ~PerSlideProgress
        /\ ~vd_video.written
        /\ vd_pc \in {"start", "images", "done"}
        /\ vd_pc = "done" =>
              /\ vd_ret.flag = "failure"
              /\ (vd_deckOk /\ vd_zipOk) =>
                    vd_ret.msg = IF ImageCount = 0 THEN "no images" ELSE "count mismatch"

C4_Witness ==
    /\ vd_pc = "done"
    /\ vd_ret = [flag |-> "failure", msg |-> "count mismatch"]
    /\ Len(vd_notes) = 2
    /\ Len(vd_images) = 1
    /\ HasNote(vd_notes[1])

TtsSlides == {vd_tts[k].slide : k \in 1..Len(vd_tts)}

\* C6: for every slide whose notes entry is absent or empty no TTS call (and no
\* audio measurement) is issued and its clip is made with exactly the fallback
\* duration of 3 seconds and no audio file; among the slides the run has reached, a
\* TTS call is issued for exactly those with a non-empty notes entry, once each.
C6_SilentSlides ==
    /\ \A k \in 1..Len(vd_tts) :
          /\ vd_notes[vd_tts[k].slide] \notin {None, <<>>}
          /\ vd_tts[k].text = vd_notes[vd_tts[k].slide]
          /\ \A j \in 1..Len(vd_tts) : vd_tts[j].slide = vd_tts[k].slide => j = k
    /\ \A k \in 1..Len(vd_notes) :
          (k <= vd_i \/ (k = vd_i + 1 /\ vd_pc \in {"probe", "mux"})) =>
              (k \in TtsSlides <=> vd_notes[k] \notin {None, <<>>})
    /\ \A k \in 1..Len(vd_sub) :
          (vd_sub[k].tool # "ffmpeg-concat"
              /\ vd_notes[vd_sub[k].slide] \in {None, <<>>}) =>
                  /\ vd_sub[k].tool = "ffmpeg"
                  /\ vd_sub[k].duration = 3
                  /\ ~vd_sub[k].audio
    /\ \A k \in 1..Len(vd_clips) :
          IF vd_notes[vd_clips[k].slide] \in {None, <<>>}
          THEN vd_clips[k].duration = 3 /\ ~vd_clips[k].audio
          ELSE vd_clips[k].audio /\ vd_clips[k].duration \in AudioDurations

C6_Witness ==
    /\ vd_ret.flag = "success"
    /\ Len(vd_clips) = 2
    /\ vd_deck[1] = [has |-> TRUE, text |-> <<" ">>]
    /\ vd_clips[1].duration = 3
    /\ vd_clips[2].audio
    /\ TtsSlides = {2}

\* C7: generate_video always ends by returning a pair: any failure of a TTS call, of
\* a muxing run or of the concatenation gives (False, message); (True, message) is
\* returned only when every slide has its clip and the concatenation succeeded, and
\* the output video never holds less than all clips.
C7_NoPartialSuccess ==
    /\ vd_pc # "done" => (vd_ret.flag = "none" /\ ~vd_video.written)
    /\ vd_pc = "done" =>
          /\ vd_ret.flag \in {"success", "failure"}
          /\ vd_ret.flag = "success" <=> vd_video.written
          /\ vd_ret.flag = "success" =>
                /\ Len(vd_clips) = Len(vd_deck)
                /\ Len(vd_clips) = ImageCount
                /\ \A k \in 1..Len(vd_clips) : vd_clips[k].slide = k
                /\ vd_video.clips = vd_clips
                /\ vd_sub[Len(vd_sub)].tool = "ffmpeg-concat"
                /\ Cardinality({k \in 1..Len(vd_sub) : vd_sub[k].tool = "ffmpeg"})
                      = Len(vd_deck)
          /\ (Len(vd_clips) < Len(vd_images) \/ ~vd_deckOk \/ ~vd_zipOk) =>
                vd_ret.flag = "failure"

C7_Witness ==
    /\ vd_pc = "done"
    /\ vd_ret = [flag |-> "failure", msg |-> "error"]
    /\ Len(vd_images) = 2
    /\ Len(vd_clips) = 1
    /\ Len(vd_tts) = 2
    /\ vd_sub[Len(vd_sub)].tool = "ffmpeg"

----------------------------------------------------------------------------
(* Properties of the image extraction *)

\* the positions of the archive whose entry is kept
KeptPositions == {i \in 1..Len(zp_archive) : IsKept(zp_archive[i])}

\* the integer a reader takes from a name: the digits of its first run, read as a
\* decimal number (leading zeros do not count)
RECURSIVE DecimalValue(_, _)
DecimalValue(acc, digits) ==
    IF Len(digits) = 0 THEN acc
    ELSE DecimalValue(10 * acc + DigitValue(digits[1]), Tail(digits))

NumberOf(name) == DecimalValue(0, FirstDigitRun(Basename(name)))

\* C5: the images are returned in ascending order of the integer value of the first
\* run of digits of their file names, whatever the order of the archive (S2 before
\* S10); every kept entry is returned once, and the numbers may have gaps and need
\* not start at 1.
C5_SortedByNumber ==
    zp_pc = "done" =>
        /\ \A i, j \in 1..Len(zp_images) :
              i < j => NumberOf(zp_images[i]) <= NumberOf(zp_images[j])
        /\ Len(zp_images) = Cardinality(KeptPositions)
        /\ {zp_images[i] : i \in 1..Len(zp_images)}
              = {zp_archive[i] : i \in KeptPositions}

C5_Witness ==
    /\ zp_pc = "done"
    /\ zp_archive = << <<"S", "1", "0", ".", "j", "p", "g">>,
                       <<"d", "/">>,
                       <<"S", "2", ".", "j", "p", "e", "g">> >>
    /\ zp_images = << <<"S", "2", ".", "j", "p", "e", "g">>,
                      <<"S", "1", "0", ".", "j", "p", "g">> >>

\* the part of an entry name behind its last "/"
FileName(name) == Split(name, "/")[Len(Split(name, "/"))]

\* the name ends with .jpeg or .jpg, in upper or lower case
HasJpegExtension(name) ==
    \E ext \in {ExtJpeg, ExtJpg} : EndsWith(Lower(name), ext)

\* the name without that extension
Stem(name) ==
    IF EndsWith(Lower(name), ExtJpeg) THEN SubSeq(name, 1, Len(name) - Len(ExtJpeg))
    ELSE SubSeq(name, 1, Len(name) - Len(ExtJpg))

\* the slide prefix of the image files (written "S")
SlidePrefix == <<"S">>

\* the file name is the slide prefix, then digits only, then .jpeg/.jpg
IsSlideNamed(name) ==
    /\ HasJpegExtension(FileName(name))
    /\ StartsWith(Stem(FileName(name)), SlidePrefix)
    /\ Len(Stem(FileName(name))) > Len(SlidePrefix)
    /\ \A i \in (Len(SlidePrefix) + 1)..Len(Stem(FileName(name))) :
          Stem(FileName(name))[i] \in Digits

\* the entry names of the images returned
ImagesReturned == {zp_images[i] : i \in 1..Len(zp_images)}

\* C16 as stated: the entries treated as slide images are exactly those whose file
\* name is the slide prefix followed by digits with a .jpeg/.jpg extension; every
\* other entry contributes no image.
C16_ExactlySlideNamed ==
    zp_pc = "done" =>
        ImagesReturned = {zp_archive[i] : i \in {k \in 1..Len(zp_archive) :
                                                   IsSlideNamed(zp_archive[k])}}

\* what is tested of an entry: it is no directory entry, no OS metadata entry and no
\* hidden file, it has a .jpeg/.jpg extension (any case) and a digit in its file name
IsNumberedJpeg(name) ==
    /\ name[Len(name)] # "/"
    /\ \A k \in 1..(Len(name) - Len(MacMetadata) + 1) :
          SubSeq(name, k, k + Len(MacMetadata) - 1) # MacMetadata
    /\ ~StartsWith(FileName(name), <<".">>)
    /\ HasJpegExtension(name)
    /\ \E i \in 1..Len(FileName(name)) : FileName(name)[i] \in Digits

\* C16 amended: the entries treated as slide images are exactly the entries that are
\* no directory, OS metadata or hidden entries, have a .jpeg/.jpg extension and hold
\* at least one digit in their file name, each once; the slide prefix is not tested.
C16_ExactlyNumberedJpegs ==
    zp_pc = "done" =>
        /\ ImagesReturned = {zp_archive[i] : i \in {k \in 1..Len(zp_archive) :
                                                      IsNumberedJpeg(zp_archive[k])}}
        /\ \A i, j \in 1..Len(zp_images) : zp_images[i] = zp_images[j] => i = j

C16_Witness ==
    /\ zp_pc = "done"
    /\ zp_archive = << <<"x", "7", ".", "j", "p", "g">>,
                       <<".", "S", "5", ".", "j", "p", "g">>,
                       <<"S", "2", ".", "j", "p", "e", "g">> >>
    /\ zp_images = << <<"S", "2", ".", "j", "p", "e", "g">>,
                      <<"x", "7", ".", "j", "p", "g">> >>

----------------------------------------------------------------------------
(* Properties of the deck builder *)

\* the offsets at which the numbered entries of the agenda start in its joined text
RECURSIVE EntryOffset(_, _)
EntryOffset(agenda, i) ==
    IF i = 1 THEN 0
    ELSE EntryOffset(agenda, i - 1) + Len(Numbered(i - 2, agenda[i - 1])) + 1

IsValidStructure(obj) == DOMAIN obj = {"title", "agenda", "main"}

RECURSIVE ExpectedContent(_, _)
\* sum of len(main[a]) over the entries a of agenda that are keys of main
ExpectedContent(agenda, main) ==
    IF Len(agenda) = 0 THEN 0
    ELSE (IF agenda[1] \in DOMAIN main THEN Len(main[agenda[1]]) ELSE 0)
         + ExpectedContent(Tail(agenda), main)

IsTitleSlide(s) ==
    /\ s.layout = StartLayout
    /\ IdxHeader \in DOMAIN s.text => s.text[IdxHeader] = sl_json["title"]

IsAgendaSlide(s) ==
    /\ s.layout = MainLayout
    /\ IdxHeader \in DOMAIN s.text => s.text[IdxHeader] = AgendaTitle
    /\ IdxBody \in DOMAIN s.text =>
          \A i \in 1..Len(sl_json["agenda"]) :
              Contains(s.text[IdxBody], Numbered(i - 1, sl_json["agenda"][i]))

IsClosingSlide(s) ==
    /\ s.layout = EndLayout
    /\ \A p \in DOMAIN s.text : s.text[p] = <<>>

\* C1: for every valid structure object the saved deck has exactly
\* 3 + sum(len(main[a]) for the entries a of agenda that are keys of main) slides;
\* slide 1 is the title slide, slide 2 the agenda slide, the last the closing slide.
C1_SlideCount ==
    (sl_pc = "done" /\ IsValidStructure(sl_json)) =>
        /\ sl_out.written
        /\ Len(sl_out.slides) = 3 + ExpectedContent(sl_json["agenda"], sl_json["main"])
        /\ IsTitleSlide(sl_out.slides[1])
        /\ IsAgendaSlide(sl_out.slides[2])
        /\ IsClosingSlide(sl_out.slides[Len(sl_out.slides)])

C1_Witness ==
    /\ sl_pc = "done"
    /\ IsValidStructure(sl_json)
    /\ Len(sl_out.slides) = 5
    /\ \E i \in 1..Len(sl_json["agenda"]) : sl_json["agenda"][i] \notin DOMAIN sl_json["main"]
    /\ IdxHeader \in DOMAIN sl_out.slides[1].text

\* the agenda positions whose entry is no key of main
MissingPositions ==
    {i \in 1..Len(sl_json["agenda"]) : sl_json["agenda"][i] \notin DOMAIN sl_json["main"]}

\* the slides of the deck whose header slot holds "<i>. <agenda[i]>"
SlidesHeaded(deck, i) ==
    {n \in 1..Len(deck) :
        /\ IdxHeader \in DOMAIN deck[n].text
        /\ deck[n].text[IdxHeader] = Numbered(i - 1, sl_json["agenda"][i])}

\* C2: an agenda entry that is no exact key of main contributes zero content slides
\* and raises no error; the agenda slide still lists it (as entry i, numbered i, starting a line) and
\* the other entries still produce one content slide per body.
C2_SilentDrop ==
    (IsValidStructure(sl_json) /\ sl_readable /\ Len(sl_template) >= 3) =>
        /\ sl_pc # "raised"
        /\ \A i \in 1..Len(sl_perItem) :
              sl_perItem[i] = IF i \in MissingPositions THEN 0
                              ELSE Len(sl_json["main"][sl_json["agenda"][i]])
        /\ sl_pc = "done" =>
              /\ Len(sl_perItem) = Len(sl_json["agenda"])
              /\ \A i \in 1..Len(sl_json["agenda"]) :
                    /\ IdxBody \in DOMAIN sl_out.slides[2].text =>
                          LET body == sl_out.slides[2].text[IdxBody]
                              at == EntryOffset(sl_json["agenda"], i)
                              entry == Numbered(i - 1, sl_json["agenda"][i])
                          IN /\ SubSeq(body, at + 1, at + Len(entry)) = entry
                             /\ at > 0 => body[at] = NL
                             /\ at + Len(entry) < Len(body) => body[at + Len(entry) + 1] = NL
                    /\ IdxHeader \in DOMAIN sl_out.slides[2].text =>
                          Cardinality(SlidesHeaded(sl_out.slides, i))
                              = IF i \in MissingPositions THEN 0
                                ELSE Len(sl_json["main"][sl_json["agenda"][i]])

C2_Witness ==
    /\ sl_pc = "done"
    /\ IsValidStructure(sl_json)
    /\ sl_template[MainLayout + 1] = {IdxHeader, IdxBody}
    /\ \E i, j \in 1..Len(sl_json["agenda"]) :
          /\ i < j
          /\ i \in MissingPositions
          /\ j \notin MissingPositions
          /\ sl_perItem[i] = 0
          /\ sl_perItem[j] = 2
          /\ sl_json["agenda"][i] = <<"A", " ">>
          /\ <<"A">> \in DOMAIN sl_json["main"]

\* the number of digits a line starts with
LeadingDigits(line) ==
    Cardinality({d \in 1..Len(line) : \A j \in 1..d : line[j] \in Digits})

\* the number a line starts with (0 when it starts with none)
LineNumber(line) == DecimalValue(0, SubSeq(line, 1, LeadingDigits(line)))

\* the line without its leading "<k>. "
RemoveNumbering(line) ==
    LET d == LeadingDigits(line)
    IN IF d > 0 /\ Len(line) >= d + 2 /\ line[d + 1] = "." /\ line[d + 2] = " "
       THEN SubSeq(line, d + 3, Len(line))
       ELSE line

\* the lines of a text; the empty text has no line
Lines(txt) == IF txt = <<>> THEN <<>> ELSE Split(txt, NL)

\* the re-parser: one agenda entry per line, numbering removed
ParseAgenda(txt) == [k \in 1..Len(Lines(txt)) |-> RemoveNumbering(Lines(txt)[k])]

AgendaBodyEmitted ==
    /\ sl_pc = "done"
    /\ IsValidStructure(sl_json)
    /\ IdxBody \in DOMAIN sl_out.slides[2].text

RoundTrips ==
    LET body == sl_out.slides[2].text[IdxBody]
    IN /\ ParseAgenda(body) = sl_json["agenda"]
       /\ \A k \in 1..Len(Lines(body)) : LineNumber(Lines(body)[k]) = k

\* C11 as stated: for every agenda list, splitting the body of the emitted agenda
\* slide into lines and removing each line's leading "<k>. " gives back the same
\* ordered agenda list, and the k-th line carries the number k.
C11_RoundTrip == AgendaBodyEmitted => RoundTrips

SingleLineItems ==
    \A i \in 1..Len(sl_json["agenda"]) :
        \A j \in 1..Len(sl_json["agenda"][i]) : sl_json["agenda"][i][j] # NL

\* C11 amended: the round trip holds for every agenda list none of whose entries
\* contains a line break.
C11_RoundTripSingleLine == (AgendaBodyEmitted /\ SingleLineItems) => RoundTrips

C11_Witness ==
    /\ AgendaBodyEmitted
    /\ SingleLineItems
    /\ Len(sl_json["agenda"]) = 2
    /\ sl_json["agenda"][2] = <<"A", " ">>
    /\ ParseAgenda(sl_out.slides[2].text[IdxBody]) = sl_json["agenda"]

\* a deck was saved for a valid structure object
DeckSaved == sl_pc = "done" /\ IsValidStructure(sl_json) /\ sl_out.written

\* the positions of the layouts the slides of the saved deck were made from
LayoutsUsed == [n \in 1..Len(sl_out.slides) |-> sl_out.slides[n].layout]

\* title, agenda and content slides, closing slide made from the given positions
LayoutsAre(title, content, closing) ==
    LET n == Len(sl_out.slides)
    IN /\ n >= 3
       /\ LayoutsUsed[1] = title
       /\ \A k \in 2..(n - 1) : LayoutsUsed[k] = content
       /\ LayoutsUsed[n] = closing

\* C17 as stated: the title slide is made from the template layout at position 0,
\* the agenda slide and every content slide from the layout at position 1, and the
\* closing slide from the layout at position 2.
C17_LayoutsTitleFirst == DeckSaved => LayoutsAre(0, 1, 2)

\* C17 amended: the title slide is made from the layout at position 1, the agenda
\* slide and every content slide from the layout at position 0, and the closing
\* slide from the layout at position 2.
C17_LayoutsContentFirst == DeckSaved => LayoutsAre(1, 0, 2)

C17_Witness ==
    /\ DeckSaved
    /\ Len(sl_out.slides) = 5
    /\ LayoutsUsed = <<1, 0, 0, 0, 2>>
    /\ sl_out.slides[1].text = [p \in {IdxHeader} |-> sl_json["title"]]

\* the (agenda position, body index) pairs of the content slides, from agenda
\* position k on: positions in ascending order, body indices ascending within one
RECURSIVE ContentPairs(_, _, _)
ContentPairs(agenda, main, k) ==
    IF k > Len(agenda) THEN <<>>
    ELSE (IF agenda[k] \in DOMAIN main
          THEN [j \in 1..Len(main[agenda[k]]) |-> <<k, j>>]
          ELSE <<>>)
         \o ContentPairs(agenda, main, k + 1)

\* C18: the content slides are grouped by agenda item in agenda order and follow,
\* within an item, the order of its slide bodies; the header slot (13) of each holds
\* "<k>. <item text>" with k the 1-based agenda position of the item (also when
\* earlier items were skipped), its body slot (14) the body text unchanged; the
\* slots of the closing slide stay empty.
C18_ContentOrder ==
    DeckSaved =>
        LET agenda == sl_json["agenda"]
            main == sl_json["main"]
            pairs == ContentPairs(agenda, main, 1)
            deck == sl_out.slides
        IN /\ Len(deck) = Len(pairs) + 3
           /\ \A m \in 1..Len(pairs) :
                 LET k == pairs[m][1]
                     j == pairs[m][2]
                     s == deck[m + 2]
                 IN /\ IdxHeader \in DOMAIN s.text =>
                          s.text[IdxHeader] = IntToStr(k) \o <<".", " ">> \o agenda[k]
                    /\ IdxBody \in DOMAIN s.text =>
                          s.text[IdxBody] = main[agenda[k]][j]
           /\ \A p \in DOMAIN deck[Len(deck)].text : deck[Len(deck)].text[p] = <<>>

C18_Witness ==
    /\ DeckSaved
    /\ sl_template[1] = {IdxHeader, IdxBody}
    /\ sl_json["agenda"] = << <<"A", " ">>, <<"B">> >>
    /\ DOMAIN sl_json["main"] = {<<"A">>, <<"B">>}
    /\ sl_json["main"][<<"B">>] = << <<"y">>, <<"x">> >>
    /\ sl_out.slides[3].text[IdxHeader] = <<"2", ".", " ", "B">>
    /\ sl_out.slides[3].text[IdxBody] = <<"y">>
    /\ sl_out.slides[4].text[IdxBody] = <<"x">>
    /\ Len(sl_out.slides) = 5

----------------------------------------------------------------------------
(* Properties of the text stages and the constructors *)

\* no usable API key: neither the argument nor (for the Anthropic components) the
\* environment gives a non-empty key
CredentialMissing == ResolveKey(tx_fn, tx_arg, tx_env) \in {NoKey, ""}

\* C12: constructing VideoGenerator or SpeakerNotesGenerator, or calling
\* generate_outline_from_text or convert_outline_to_json, with no usable API key
\* raises ValueError in the first step of the run: no client is constructed and no
\* model, TTS or subprocess call is made.
C12_MissingCredential ==
    (tx_pc # "idle" /\ CredentialMissing) =>
        /\ tx_pc \in {"start", "raised"}
        /\ tx_pc = "raised" => tx_ret.kind = "ValueError"
        /\ tx_calls = <<>>
        /\ ~tx_client

C12_Witness ==
    /\ tx_pc = "raised"
    /\ tx_fn = "SpeakerNotesGenerator"
    /\ tx_arg = NoKey
    /\ tx_env = ""
    /\ tx_ret.kind = "ValueError"
    /\ tx_calls = <<>>

\* the calls of one kind in a log are issued for pairwise different subjects
OncePerSubject(log) == \A i, j \in 1..Len(log) : log[i] = log[j] => i = j

\* the slides for which a TTS call was issued, in call order
TtsLog == [k \in 1..Len(vd_tts) |-> vd_tts[k].slide]

\* the subprocess invocations of one tool: the slides they were issued for
RECURSIVE ToolLog(_, _)
ToolLog(tool, log) ==
    IF Len(log) = 0 THEN <<>>
    ELSE (IF log[1].tool = tool THEN <<log[1].slide>> ELSE <<>>)
         \o ToolLog(tool, Tail(log))

\* the run has rasterised the PDF and left the generation loop
GenerationEnded(e) == nt_pc[e] = "done" /\ ReachedWritePhase(e)

\* C13: no external call is ever retried. The outline generator and the structure
\* converter issue at most one completion call; notes generation never calls the
\* vision model twice for a page and, once the generation loop over the pages of
\* the PDF has ended, has called it exactly once for each page, in page order;
\* video generation issues at most one TTS call and one muxing call per slide and
\* at most one concatenation call; all of this also after a failure.
C13_NoRetry ==
    /\ Len(tx_calls) <= 1
    /\ \A e \in Entries :
          /\ OncePerSubject(nt_vision[e])
          /\ GenerationEnded(e) => nt_vision[e] = [k \in 1..nt_pages |-> k]
    /\ OncePerSubject(TtsLog)
    /\ OncePerSubject(ToolLog("ffmpeg", vd_sub))
    /\ Len(ToolLog("ffmpeg-concat", vd_sub)) <= 1

\* a run in which every page's vision call raised and the write of the deck failed
C13_Witness ==
    /\ nt_pc["process_pptx_with_pdf"] = "done"
    /\ nt_ret["process_pptx_with_pdf"] = "failure"
    /\ nt_pages = 3
    /\ nt_failing = {1, 2, 3}
    /\ nt_vision["process_pptx_with_pdf"] = <<1, 2, 3>>

----------------------------------------------------------------------------
(* Properties of the extraction of the speaker notes *)

\* the text is empty or holds whitespace only
IsBlank(txt) == \A i \in 1..Len(txt) : txt[i] \in Whitespace

\* r is txt without its leading and trailing whitespace
IsStrippedOf(r, txt) ==
    /\ Len(r) > 0
    /\ r[1] \notin Whitespace
    /\ r[Len(r)] \notin Whitespace
    /\ \E a \in 0..Len(txt) :
          /\ a + Len(r) <= Len(txt)
          /\ SubSeq(txt, a + 1, a + Len(r)) = r
          /\ IsBlank(SubSeq(txt, 1, a))
          /\ IsBlank(SubSeq(txt, a + Len(r) + 1, Len(txt)))

\* C19: extract_speaker_notes returns one entry per slide of the deck, in deck
\* order; the entry is None exactly when the slide has no notes field or its notes
\* text is empty or whitespace-only, and otherwise is the notes text without its
\* leading and trailing whitespace.
C19_NotesExtracted ==
    (vd_pc # "start" /\ vd_deckOk) =>
        /\ Len(vd_notes) = Len(vd_deck)
        /\ \A i \in 1..Len(vd_deck) :
              IF ~vd_deck[i].has \/ IsBlank(vd_deck[i].text)
              THEN vd_notes[i] = None
              ELSE vd_notes[i] # None /\ IsStrippedOf(vd_notes[i], vd_deck[i].text)

C19_Witness ==
    /\ vd_pc = "images"
    /\ vd_deck = << [has |-> TRUE, text |-> <<" ", "b", NL>>],
                    [has |-> TRUE, text |-> <<" ">>] >>
    /\ vd_notes = << <<"b">>, None >>

----------------------------------------------------------------------------
(* Properties of the order of the clips *)

\* the positions in the log of subprocess invocations that ran the given tool
ToolPositions(tool) == {k \in 1..Len(vd_sub) : vd_sub[k].tool = tool}

\* C14: in a successful generate_video run over N slides the concatenation is
\* invoked exactly once, after the N runs that made the per-slide clips, and its
\* input list holds exactly one clip per slide in slide order: the k-th clip shows
\* the k-th image of the archive in ascending order of the number in the name, and
\* carries the speech of the k-th notes entry of the deck (or none if it is absent).
C14_ConcatInSlideOrder ==
    (vd_pc = "done" /\ vd_ret.flag = "success") =>
        LET N == Len(vd_deck)
            list == vd_video.clips
        IN /\ Cardinality(ToolPositions("ffmpeg-concat")) = 1
           /\ Cardinality(ToolPositions("ffmpeg")) = N
           /\ \A c \in ToolPositions("ffmpeg-concat") :
                 \A m \in ToolPositions("ffmpeg") : m < c
           /\ Len(list) = N
           /\ N = ImageCount
           /\ \A k \in 1..N :
                 /\ list[k].slide = k
                 /\ \E p \in 1..Len(vd_archive) :
                       IsKept(vd_archive[p]) /\ vd_archive[p] = list[k].image
                 /\ \A j \in 1..N :
                       j < k => NumberOf(list[j].image) < NumberOf(list[k].image)
                 /\ list[k].audio = (NoteOf(vd_deck[k]) # None)
                 /\ list[k].audio =>
                       \E t \in 1..Len(vd_tts) :
                           vd_tts[t] = [slide |-> k, text |-> NoteOf(vd_deck[k])]

C14_Witness ==
    /\ vd_pc = "done"
    /\ vd_ret.flag = "success"
    /\ Len(vd_deck) = 2
    /\ vd_archive = << <<"S", "1", "0", ".", "j", "p", "g">>,
                       <<"S", "2", ".", "j", "p", "e", "g">> >>
    /\ vd_video.clips[1].image = <<"S", "2", ".", "j", "p", "e", "g">>
    /\ ~vd_video.clips[1].audio
    /\ vd_video.clips[2].audio

----------------------------------------------------------------------------
(* Properties of the temporary files *)

\* no handler of the slide-generation stage is running and one has run
StageReturned ==
    /\ \A s \in Sessions : ui_pc[s] = "idle"
    /\ \E s \in Sessions : ui_attempts[s] > 0

\* C15: every temporary file a run creates is removed by the end of that run, on
\* success and on failure alike: when the runs of the slide-generation stage have
\* returned, the intermediate JSON file and the intermediate deck are gone, and when
\* process_pptx has returned its temporary directory is empty.
C15_TemporariesRemoved ==
    /\ StageReturned => (ui_fs.json = NoFile /\ ui_fs.deck = NoFile)
    /\ \A e \in Entries : nt_pc[e] = "done" => nt_tmp[e] = {}

----------------------------------------------------------------------------
(* Properties of the structure converter *)

\* the opening fence of a reply: "^^^json", else "^^^", else nothing
LeadingFence(txt) ==
    IF StartsWith(txt, JsonFence) THEN JsonFence
    ELSE IF StartsWith(txt, Fence) THEN Fence
    ELSE <<>>

\* the closing fence of what follows the opening fence: "^^^" or nothing
TrailingFence(txt) ==
    LET rest == SubSeq(txt, Len(LeadingFence(txt)) + 1, Len(txt))
    IN IF EndsWith(rest, Fence) THEN Fence ELSE <<>>

\* the reply between its opening and closing fence, outer whitespace removed
Remainder(txt) ==
    Strip(SubSeq(txt, Len(LeadingFence(txt)) + 1, Len(txt) - Len(TrailingFence(txt))))

\* the step of convert_outline_to_json that follows the reply
ParsesReply ==
    /\ tx_fn = "convert_outline_to_json"
    /\ tx_pc = "replied"
    /\ tx_pc' # "replied"

\* C21: convert_outline_to_json removes the code-fence wrapper (a leading "^^^json"
\* or "^^^", a trailing "^^^") from the reply and parses the remainder as JSON; it
\* returns the parsed structure when the remainder is valid JSON, and otherwise the
\* parse error reaches the caller: nothing is repaired, no second model call is
\* made and no structure is returned.
C21_UnfenceThenParse ==
    [][ParsesReply =>
          /\ tx_text' = Remainder(tx_text)
          /\ tx_calls' = tx_calls
          /\ tx_calls = <<"completion">>
          /\ IF Remainder(tx_text) = <<"{", "}">>
             THEN tx_pc' = "done" /\ tx_ret' = [kind |-> "object", text |-> <<"{", "}">>]
             ELSE tx_pc' = "raised" /\ tx_ret' = [kind |-> "JSONDecodeError", text |-> <<>>]
       ]_vars

\* a fenced reply whose remainder is no JSON document has been rejected
C21_Witness ==
    /\ tx_fn = "convert_outline_to_json"
    /\ tx_pc = "raised"
    /\ tx_ret.kind = "JSONDecodeError"
    /\ tx_text = <<"{">>
    /\ tx_calls = <<"completion">>

----------------------------------------------------------------------------
(* Properties of the course of a video-generation run *)

\* the slides whose clip has been made
ClipSlides == {vd_clips[k].slide : k \in 1..Len(vd_clips)}

\* the slides for which a TTS call or a subprocess was issued
SlidesWorkedOn ==
    {vd_tts[k].slide : k \in 1..Len(vd_tts)}
        \cup {vd_sub[k].slide : k \in {n \in 1..Len(vd_sub) : vd_sub[n].tool # "ffmpeg-concat"}}

\* the calls were issued slide after slide, the concatenation last of all
IssuedInSlideOrder ==
    /\ \A a, b \in 1..Len(vd_tts) : a < b => vd_tts[a].slide < vd_tts[b].slide
    /\ \A a, b \in 1..Len(vd_sub) :
          a < b => /\ vd_sub[a].tool # "ffmpeg-concat"
                   /\ vd_sub[b].tool # "ffmpeg-concat" => vd_sub[a].slide <= vd_sub[b].slide
    /\ \A k \in 1..Len(vd_clips) : vd_clips[k].slide = k

\* work on a slide begins only when the clips of all slides before it are made, and
\* the concatenation only when the clips of all slides are made
NothingAfterFailure ==
    /\ \A k \in SlidesWorkedOn : \A j \in 1..(k - 1) : j \in ClipSlides
    /\ ToolPositions("ffmpeg-concat") # {} => ClipSlides = 1..Len(vd_images)

\* the run has ended in the work on a slide: its TTS call, its audio measurement or
\* its ffmpeg run failed
FailedInSlide ==
    /\ vd_pc = "done"
    /\ vd_ret = [flag |-> "failure", msg |-> "error"]
    /\ SlidesWorkedOn # {}
    /\ ToolPositions("ffmpeg-concat") = {}

\* C22: a video-generation run stops at its first failure: when the TTS call or the
\* muxing subprocess of slide k fails, no TTS call and no subprocess is issued for
\* any slide after k and the concatenation is never invoked; the slides are
\* processed strictly one after the other in slide order, and a run that has
\* entered the loop over the slides terminates.
C22_StopsAtFirstFailure ==
    /\ [](IssuedInSlideOrder /\ NothingAfterFailure)
    /\ [](FailedInSlide =>
            /\ \A k \in SlidesWorkedOn : k <= Len(vd_clips) + 1
            /\ Len(vd_clips) < Len(vd_images)
            /\ ~vd_video.written)
    /\ (vd_pc = "slide") ~> (vd_pc = "done")

\* the ffmpeg run of slide 1 failed in a run over two slides with notes
C22_Witness ==
    /\ FailedInSlide
    /\ Len(vd_images) = 2
    /\ HasNote(vd_notes[2])
    /\ vd_clips = <<>>
    /\ vd_tts = <<[slide |-> 1, text |-> vd_notes[1]]>>
    /\ Len(vd_sub) = 2
    /\ vd_sub[2].tool = "ffmpeg"

----------------------------------------------------------------------------
(* Properties of the progress reports of the video generator *)

\* the invocations of the callback made from the loop over the slides on (those of
\* the two extraction steps carry the total 1)
StepReports ==
    SubSeq(vd_progress, 3, Len(vd_progress))

\* C24: in generate_video over N slides the progress callback is invoked once per
\* slide in slide order, before the TTS/muxing work of that slide, and once for the
\* combining phase before the concatenation; over these invocations the completed
\* count never decreases and never exceeds the total, and a completed count equal
\* to the total is reported only after the concatenation has succeeded.
C24_VideoProgress ==
    LET N == Len(vd_images)
        r == StepReports
    IN /\ \A k \in 1..Len(r) : r[k][2] = N + 1 /\ r[k][1] <= r[k][2]
       /\ \A k \in 1..Len(r) : k <= N => r[k][1] = k
       /\ \A a, b \in 1..Len(r) : a < b => r[a][1] <= r[b][1]
       /\ \A s \in SlidesWorkedOn : Len(r) >= s
       /\ ToolPositions("ffmpeg-concat") # {} => Len(r) >= N + 1
       /\ \A k \in 1..Len(vd_progress) :
             vd_progress[k][1] = vd_progress[k][2] => vd_video.written

----------------------------------------------------------------------------
(* Properties of the outline generator *)

\* the step in which generate_outline_from_text returns the outline
ReturnsOutline ==
    /\ tx_fn = "generate_outline_from_text"
    /\ tx_pc = "replied"
    /\ tx_pc' = "done"

\* s ends with the sequence t
IsSuffix(t, s) ==
    /\ Len(t) <= Len(s)
    /\ SubSeq(s, Len(s) - Len(t) + 1, Len(s)) = t

\* C25: generate_outline_from_text returns the (stripped) reply with only a
\* surrounding code fence removed: a reply that does not start with a fence is
\* returned unchanged; of a reply wrapped in a fence exactly the opening and the
\* closing fence line are removed; a reply that starts with a fence and does not
\* end with one keeps every line after the opening line.
C25_OnlyWrapperRemoved ==
    [][ReturnsOutline =>
          LET lines == Split(tx_text, NL)
              n == Len(lines)
              out == tx_ret'.text
          IN /\ tx_ret'.kind = "text"
             /\ ~StartsWith(tx_text, Fence) => out = tx_text
             /\ (StartsWith(tx_text, Fence) /\ n >= 2 /\ StartsWith(lines[n], Fence))
                   => out = Join(<<NL>>, SubSeq(lines, 2, n - 1))
             /\ (StartsWith(tx_text, Fence) /\ ~StartsWith(lines[n], Fence))
                   => IsSuffix(SubSeq(lines, 2, n), Split(out, NL))
      ]_vars

----------------------------------------------------------------------------
(* Properties of the downloads offered by the slide-generation stage *)

\* the page of session s is rendered with both download buttons
OffersBoth(s) ==
    /\ ui_pc[s] = "idle"
    /\ ui_session[s].pptx_data # NoFile
    /\ ui_session[s].json_data # NoStructure

\* no other session has used the stage
Alone(s) == \A t \in Sessions \ {s} : ui_attempts[t] = 0

\* C26: in a UI session, after any sequence of slide-generation attempts (each
\* succeeding, failing in the conversion or failing in the build), whenever both a
\* deck and a structure are offered for download, the stored deck and its file name
\* are those built from the stored structure.
C26_DeckMatchesStructure ==
    \A s \in Sessions :
        (OffersBoth(s) /\ Alone(s)) =>
            /\ ui_session[s].pptx_data = BuildDeck(ui_session[s].json_data)
            /\ ui_session[s].pptx_filename = DeckFilename(ui_session[s].json_data)

\* C27: two slide-generation runs of different sessions, interleaved in any order,
\* do not interfere through /tmp/lecture.json and /tmp/generated_slides.pptx: the
\* deck a run stores in its session is the one built from the structure that run
\* obtained from the conversion.
C27_NoInterference ==
    \A s \in Sessions :
        (ui_pc[s] = "idle" /\ ui_last[s] = "success") =>
            ui_session[s].pptx_data = BuildDeck(ui_local[s])

----------------------------------------------------------------------------
(* Properties of the notes generator followed by the video generator *)

\* the slides of the deck written by e whose vision-model call failed
FailedSlides(e) ==
    {i \in 1..Len(nt_out[e].slides) : i <= Len(nt_notes[e]) /\ i \in nt_failing}

\* the video generator was called on the deck written by e
CalledOn(e) ==
    /\ nt_out[e].written
    /\ vd_pc # "call"
    /\ vd_deck = DeckWithNotes(e)

\* C28: a slide whose vision-model call failed carries the non-empty placeholder as
\* its notes (after the notes it had before, if any), so a later generate_video run
\* on that deck takes it for a slide with notes: once the run has worked on the
\* slide it has issued a TTS call on that text, and it makes no silent clip of the
\* fallback duration for it.
C28_PlaceholderIsNarrated ==
    \A e \in Entries : \A i \in FailedSlides(e) :
        /\ nt_out[e].written =>
              /\ IsSuffix(Placeholder(i), nt_out[e].slides[i])
              /\ IsBlank(nt_deck[i]) => nt_out[e].slides[i] = Placeholder(i)
        /\ CalledOn(e) =>
              /\ vd_notes # <<>> => vd_notes[i] = Strip(nt_out[e].slides[i])
              /\ (vd_i >= i \/ (vd_i = i - 1 /\ vd_pc \in {"probe", "mux"})) =>
                    \E k \in 1..Len(vd_tts) :
                        /\ vd_tts[k].slide = i
                        /\ IsSuffix(Placeholder(i), vd_tts[k].text)
              /\ \A k \in 1..Len(vd_sub) :
                    (vd_sub[k].slide = i /\ vd_sub[k].tool = "ffmpeg") =>
                        (vd_sub[k].audio /\ vd_sub[k].duration \in AudioDurations)
              /\ \A k \in 1..Len(vd_clips) :
                    vd_clips[k].slide = i => vd_clips[k].audio

\* a video was written from a deck in which the second of two slides carries the
\* placeholder alone and was narrated
C28_Witness ==
    \E e \in Entries :
        /\ CalledOn(e)
        /\ FailedSlides(e) = {2}
        /\ nt_out[e].slides[2] = Placeholder(2)
        /\ vd_video.written
        /\ \E k \in 1..Len(vd_tts) : vd_tts[k] = [slide |-> 2, text |-> Placeholder(2)]
        /\ Len(vd_clips) = 2
        /\ vd_clips[2].audio

----------------------------------------------------------------------------
(* Properties of the output document of the deck builder *)

RECURSIVE SumOf(_)
SumOf(counts) ==
    IF counts = <<>> THEN 0 ELSE Head(counts) + SumOf(Tail(counts))

\* the file at output_path as it was before the call
OutputUntouched == sl_out = [written |-> FALSE, slides |-> <<>>]

====
